---------------------------- MODULE Spec2Model ----------------------------
(***************************************************************************)
(* A model of src/main/grep.c: strsplit, grep/grepl, sub/gsub,             *)
(* regexpr/gregexpr and regexec over a character vector.                   *)
(*                                                                         *)
(* A string is a sequence of bytes (0-based C offset k is element k+1).    *)
(* One behaviour is one call of one .Internal entry point: Init is the     *)
(* state on entry, an intake action does the argument checks, the mode     *)
(* selection and the compilation, one action handles one text element      *)
(* (gregexpr: one iteration of the match loop), and a finish action frees  *)
(* the compiled pattern and assembles the value.                           *)
(*                                                                         *)
(* The host is a UTF-8 locale (mbcslocale, utf8locale).  The regex         *)
(* engines (TRE, PCRE) are outside grep.c and are modelled by their        *)
(* contract on a small table of patterns.                                  *)
(***************************************************************************)
EXTENDS Integers, Sequences, FiniteSets, TLC

VARIABLES call, mode, pc, itok, i, ans, ind, g, compiled, tried, mt, nwarn, warns, err,
          R_interrupts_pending

vars == <<call, mode, pc, itok, i, ans, ind, g, compiled, tried, mt, nwarn, warns, err,
          R_interrupts_pending>>

(***************************************************************************)
(* Bounds                                                                  *)
(***************************************************************************)
\* the bytes of one call's text vector, all elements together
MaxLen == 3

(***************************************************************************)
(* Program constants                                                       *)
(***************************************************************************)
NWARN == 5

\* the host locale: a UTF-8 locale
mbcslocale == TRUE
utf8locale == TRUE
latin1locale == FALSE

(***************************************************************************)
(* Bytes, characters, UTF-8                                                *)
(***************************************************************************)
Min(a, b) == IF a < b THEN a ELSE b
MAX(a, b) == IF a > b THEN a ELSE b

\* the code points texts are made of: a, b and e-acute
Chars == {97, 98, 233}

\* UTF-8 encoding of one code point below 0x800
EncodeChar(c) == IF c < 128 THEN <<c>> ELSE <<192 + (c \div 64), 128 + (c % 64)>>

RECURSIVE Encode(_)
Encode(cs) == IF cs = <<>> THEN <<>> ELSE EncodeChar(Head(cs)) \o Encode(Tail(cs))

\* the byte length of the UTF-8 character whose lead byte is c
utf8clen(c) ==
    IF c < 192 THEN 1
    ELSE IF c < 224 THEN 2
    ELSE IF c < 240 THEN 3
    ELSE 4

IsCont(c) == c >= 128 /\ c < 192

RECURSIVE utf8ValidFrom(_, _)
utf8ValidFrom(s, k) ==
    IF k >= Len(s) THEN TRUE
    ELSE LET c == s[k + 1]
             n == utf8clen(c)
         IN  /\ ~IsCont(c)
             /\ c < 248
             /\ k + n <= Len(s)
             /\ \A j \in 1 .. (n - 1) : IsCont(s[k + 1 + j])
             /\ utf8ValidFrom(s, k + n)

utf8Valid(s) == utf8ValidFrom(s, 0)

\* in a UTF-8 locale a multibyte string is valid iff it is valid UTF-8
mbcsValid(s) == utf8Valid(s)

strIsASCII(s) == \A k \in 1 .. Len(s) : s[k] < 128

\* the code points of a valid UTF-8 string
RECURSIVE Decode(_)
Decode(s) ==
    IF s = <<>> THEN <<>>
    ELSE LET n == utf8clen(s[1])
         IN  IF n = 1 THEN <<s[1]>> \o Decode(Tail(s))
             ELSE <<(s[1] - 192) * 64 + (s[2] - 128)>>
                      \o Decode(SubSeq(s, n + 1, Len(s)))

\* the bytes of s from offset k (0-based) to the terminating NUL
Suffix(s, k) == SubSeq(s, k + 1, Len(s))

\* bytes [from, to) of s
Slice(s, from, to) == SubSeq(s, from + 1, to)

\* strncmp(pat, target + k, plen) == 0
StartsWithAt(target, k, pat) ==
    /\ k + Len(pat) <= Len(target)
    /\ SubSeq(target, k + 1, k + Len(pat)) = pat

\* offset k is the first byte of a character of the valid UTF-8 string s, or its end
IsBoundary(s, k) == k = Len(s) \/ (k < Len(s) /\ ~IsCont(s[k + 1]))

(***************************************************************************)
(* Text elements (CHARSXP): bytes plus an encoding mark, or NA_STRING      *)
(***************************************************************************)
NA_STRING == [na |-> TRUE, s |-> <<78, 65>>, enc |-> "native"]

mkElt(s, enc) == [na |-> FALSE, s |-> s, enc |-> enc]

IS_ASCII(e) == ~e.na /\ strIsASCII(e.s)
\* an element never taken as byte-tagged
NeverBytes(e) == FALSE

IS_BYTES(e) == e.enc = "bytes"
IS_UTF8(e) == e.enc = "utf8"
IS_LATIN1(e) == e.enc = "latin1"

\* CHAR(x)
CHAR(e) == e.s
\* in a UTF-8 locale native and UTF-8 marked strings are passed through
translateChar(e) == e.s
translateCharUTF8(e) == e.s
\* the wide characters of a string
wtransChar(e) == Decode(e.s)

\* the byte length an element counts for the size of a call's input
ELen(e) == IF e.na THEN 0 ELSE Len(e.s)

CharSeqs == UNION {[1 .. n -> Chars] : n \in 0 .. MaxLen}

\* valid UTF-8 strings of at most MaxLen bytes, and two with a truncated sequence
Strings == {Encode(cs) : cs \in {c \in CharSeqs : Len(Encode(c)) <= MaxLen}}
               \cup {<<195>>, <<195, 97>>}

\* mkCharCE drops the encoding mark of an ASCII string
Marks(s) == IF strIsASCII(s) THEN {"native"} ELSE {"native", "utf8", "bytes"}

Elements == {NA_STRING} \cup
            UNION {{mkElt(s, m) : m \in Marks(s)} : s \in Strings}

TextVectors == {<<>>} \cup {<<e>> : e \in Elements} \cup
               {<<q[1], q[2]>> : q \in {r \in Elements \X Elements :
                                             ELen(r[1]) + ELen(r[2]) <= MaxLen}}

(***************************************************************************)
(* The regex engines, by contract, on a table of patterns                  *)
(***************************************************************************)
\* the patterns the engines know: source text, kind, operands (code points)
RegexTable ==
    { [src |-> <<97>>,                  kind |-> "lit",  w |-> <<97>>, w2 |-> <<>>,   nsub |-> 0],
      [src |-> <<97, 42>>,              kind |-> "star", w |-> <<97>>, w2 |-> <<>>,   nsub |-> 0],
      [src |-> <<94, 97>>,              kind |-> "bol",  w |-> <<97>>, w2 |-> <<>>,   nsub |-> 0],
      [src |-> <<40, 97, 41, 124, 98>>, kind |-> "alt",  w |-> <<97>>, w2 |-> <<98>>, nsub |-> 1],
      [src |-> <<233>>,                 kind |-> "lit",  w |-> <<233>>, w2 |-> <<>>,  nsub |-> 0] }

RegexSources == {Encode(e.src) : e \in RegexTable}

\* tre_regcomp / tre_regwcomp / pcre_compile: units are bytes, or wide characters
\* a source outside the table has no special character and matches itself
regcomp(spat, wide) ==
    IF spat \in RegexSources
    THEN LET e == CHOOSE x \in RegexTable : Encode(x.src) = spat
         IN  [kind |-> e.kind,
              w    |-> IF wide THEN e.w ELSE Encode(e.w),
              w2   |-> IF wide THEN e.w2 ELSE Encode(e.w2),
              nsub |-> e.nsub]
    ELSE [kind |-> "lit", w |-> IF wide THEN Decode(spat) ELSE spat, w2 |-> <<>>,
          nsub |-> 0]

RECURSIVE Reps(_, _, _)
Reps(u, p, w) == IF StartsWithAt(u, p, w) THEN 1 + Reps(u, p + Len(w), w) ELSE 0

\* the length of the match of re that starts at offset p of u, or -1
MatchAt(re, u, p, bol) ==
    CASE re.kind = "lit"  -> IF StartsWithAt(u, p, re.w) THEN Len(re.w) ELSE -1
      [] re.kind = "star" -> Len(re.w) * Reps(u, p, re.w)
      [] re.kind = "bol"  -> IF bol /\ p = 0 /\ StartsWithAt(u, p, re.w)
                             THEN Len(re.w) ELSE -1
      [] re.kind = "alt"  -> IF StartsWithAt(u, p, re.w) THEN Len(re.w)
                             ELSE IF StartsWithAt(u, p, re.w2) THEN Len(re.w2)
                             ELSE -1

\* the offsets of capture group 1 for the match at p; an unset group is (-1, -1)
GroupAt(re, u, p) ==
    IF re.kind = "alt" /\ StartsWithAt(u, p, re.w)
    THEN <<p, p + Len(re.w)>>
    ELSE <<-1, -1>>

REG_NOMATCH == [rc |-> 1, so |-> -1, eo |-> -1, gso |-> -1, geo |-> -1]

\* the engine refuses the subject or the start offset
PCRE_ERROR == [rc |-> 2, so |-> -1, eo |-> -1, gso |-> -1, geo |-> -1]

\* R_pcre_exec_error: whether a warning is given for the result; the text of
\* the library decides for an error that is not a resource limit
R_pcre_exec_error(r) == IF r.rc = 2 THEN BOOLEAN ELSE {FALSE}

NoRe == [kind |-> "none", w |-> <<>>, w2 |-> <<>>, nsub |-> 0]

\* the leftmost match of re in u at an offset >= start among the offsets cand
RegSearch(re, u, start, bol, cand) ==
    LET hits == {p \in cand : p >= start /\ MatchAt(re, u, p, bol) >= 0}
    IN  IF hits = {} THEN REG_NOMATCH
        ELSE LET p == CHOOSE p \in hits : \A q \in hits : p <= q
                 gr == GroupAt(re, u, p)
             IN  [rc |-> 0, so |-> p, eo |-> p + MatchAt(re, u, p, bol),
                  gso |-> gr[1], geo |-> gr[2]]

\* an engine that takes every attempt as one at the start of a line
tre_regexec_bol(re, u, notbol) == RegSearch(re, u, 0, TRUE, 0 .. Len(u))

\* tre_regexecb(reg, string, nmatch, regmatch, eflags), also tre_regwexec on
\* wide characters: offsets are relative to the string passed
tre_regexec(re, u, notbol) == RegSearch(re, u, 0, ~notbol, 0 .. Len(u))

\* pcre_exec(re, extra, s, ns, start, eflag, ovector, n): offsets are absolute;
\* in UTF mode a match starts on a character boundary
pcre_exec(re, s, start, notbol, utf) ==
    RegSearch(re, s, start, ~notbol,
              IF utf THEN {p \in 0 .. Len(s) : IsBoundary(s, p)} ELSE 0 .. Len(s))

\* every result the engine can give from a start offset inside a character in
\* UTF mode, which PCRE leaves undefined
pcre_exec_any(s, start) ==
    {REG_NOMATCH} \cup
    {r \in [rc : {0}, so : start .. Len(s), eo : start .. Len(s), gso : {-1}, geo : {-1}] :
        r.so <= r.eo}

(***************************************************************************)
(* New strings made by the host                                            *)
(***************************************************************************)
mkCharCE(s, enc) == mkElt(s, IF strIsASCII(s) THEN "native" ELSE enc)
mkChar(s) == mkCharCE(s, "native")
markKnown(s, ref) ==
    mkCharCE(s, IF ref.enc \in {"utf8", "latin1"} THEN ref.enc ELSE "native")

\* wtransChar of the host: a valid string is decoded; for an invalid one the
\* host either fails or writes each bad byte as <xx>
HexDigit(d) == IF d < 10 THEN 48 + d ELSE 87 + d

RECURSIVE Escaped(_)
Escaped(s) ==
    IF s = <<>> THEN <<>>
    ELSE (IF s[1] < 128 THEN <<s[1]>>
          ELSE <<60, HexDigit(s[1] \div 16), HexDigit(s[1] % 16), 62>>) \o Escaped(Tail(s))

wtransCharAny(e) ==
    IF utf8Valid(e.s) THEN {[bad |-> FALSE, w |-> Decode(e.s)]}
    ELSE {[bad |-> TRUE, w |-> <<>>], [bad |-> FALSE, w |-> Escaped(e.s)]}

\* mkCharW: wide characters to a UTF-8 marked string
mkCharW(wc) == mkCharCE(Encode(wc), "utf8")

\* a result slot not written yet
UNSET == [na |-> FALSE, s |-> <<>>, enc |-> "unset"]

\* R's NA_integer_ and NA_logical
NA_INTEGER == -2147483647 - 1

(***************************************************************************)
(* The literal matcher                                                     *)
(***************************************************************************)
NoHit == [st |-> -1, next |-> 0]

\* the first offset k >= from with target[k] = c
RECURSIVE ScanByte(_, _, _)
ScanByte(target, c, k) ==
    IF k >= Len(target) THEN -1
    ELSE IF target[k + 1] = c THEN k
    ELSE ScanByte(target, c, k + 1)

\* the loop of the UTF-8 and the multibyte branch: ib in bytes, ic in characters
RECURSIVE ScanChars(_, _, _, _)
ScanChars(pat, target, ib, ic) ==
    IF ib > Len(target) - Len(pat) THEN [ib |-> -1, ic |-> -1]
    ELSE IF StartsWithAt(target, ib, pat) THEN [ib |-> ib, ic |-> ic]
    ELSE LET used == utf8clen(target[ib + 1])
         IN  IF used <= 0 THEN [ib |-> -1, ic |-> -1]
             ELSE ScanChars(pat, target, ib + used, ic + 1)

\* the loop of the last branch: byte by byte
RECURSIVE ScanBytes(_, _, _)
ScanBytes(pat, target, k) ==
    IF k > Len(target) - Len(pat) THEN -1
    ELSE IF StartsWithAt(target, k, pat) THEN k
    ELSE ScanBytes(pat, target, k + 1)

\* a matcher that reports the byte offset of the match in every branch
fgrep_one_byteOffset(pat, target, useBytes, use_UTF8) ==
    LET k == ScanBytes(pat, target, 0)
    IN  IF Len(pat) = 0 THEN [st |-> 0, next |-> 1]
        ELSE IF k >= 0 THEN [st |-> k, next |-> k + Len(pat)] ELSE NoHit

\* the match position in characters (st) and the byte offset after the match (next)
fgrep_one(pat, target, useBytes, use_UTF8) ==
    LET plen == Len(pat)
    IN  IF plen = 0 THEN [st |-> 0, next |-> 1]
        ELSE IF plen = 1 /\ (useBytes \/ ~(mbcslocale \/ use_UTF8))
        THEN LET k == ScanByte(target, pat[1], 0)
             IN  IF k >= 0 THEN [st |-> k, next |-> k + 1] ELSE NoHit
        ELSE IF (~useBytes /\ use_UTF8) \/ (~useBytes /\ mbcslocale)
        THEN LET r == ScanChars(pat, target, 0, 0)
             IN  IF r.ib >= 0 THEN [st |-> r.ic, next |-> r.ib + plen] ELSE NoHit
        ELSE LET k == ScanBytes(pat, target, 0)
             IN  IF k >= 0 THEN [st |-> k, next |-> k + plen] ELSE NoHit

\* the match position in bytes, for [g]sub
fgrep_one_bytes(pat, target, len, useBytes, use_UTF8) ==
    LET plen == Len(pat)
    IN  IF plen = 0 THEN 0
        ELSE IF plen = 1 /\ (useBytes \/ ~(mbcslocale \/ use_UTF8))
        THEN ScanByte(target, pat[1], 0)
        ELSE IF (~useBytes /\ use_UTF8) \/ (~useBytes /\ mbcslocale)
        THEN ScanChars(pat, SubSeq(target, 1, len), 0, 0).ib
        ELSE ScanBytes(pat, SubSeq(target, 1, len), 0)

(***************************************************************************)
(* strsplit                                                                *)
(***************************************************************************)
\* some element of v carries the encoding mark
AnyMarked(v, mark) == \E k \in 1 .. Len(v) : v[k].enc = mark

\* a matcher that compares the first byte of the token only
FixedHitFirstByte(buf, split, bufp) == buf[bufp + 1] = split[1]

\* the test of the two scanning loops of the fixed branch at offset bufp
FixedHit(buf, split, bufp) ==
    LET slen == Len(split)
    IN  ~ \/ (slen = 1 /\ buf[bufp + 1] # split[1])
          \/ (slen > 1 /\ ~StartsWithAt(buf, bufp, split))

\* first pass: the number of splits and the start of the tail
RECURSIVE CountFixed(_, _, _, _, _)
CountFixed(buf, split, bufp, ntok, laststart) ==
    IF bufp >= Len(buf) THEN [ntok |-> ntok, laststart |-> laststart]
    ELSE IF ~FixedHit(buf, split, bufp)
    THEN CountFixed(buf, split, bufp + 1, ntok, laststart)
    ELSE LET b == bufp + MAX(Len(split) - 1, 0)
         IN  CountFixed(buf, split, b + 1, ntok + 1, b + 1)

\* the inner loop of the second pass: the next offset >= bufp that matches, or -1
RECURSIVE NextFixed(_, _, _)
NextFixed(buf, split, bufp) ==
    IF bufp >= Len(buf) THEN -1
    ELSE IF FixedHit(buf, split, bufp) THEN bufp
    ELSE NextFixed(buf, split, bufp + 1)

\* second pass: token j is buf[laststart, match); returns the tokens and the tail start
RECURSIVE FillFixed(_, _, _, _, _, _)
FillFixed(buf, split, j, ntok, laststart, acc) ==
    IF j >= ntok THEN [toks |-> acc, bufp |-> laststart]
    ELSE LET h == NextFixed(buf, split, laststart)
         IN  IF h < 0
             THEN FillFixed(buf, split, j + 1, ntok, laststart, Append(acc, <<>>))
             ELSE FillFixed(buf, split, j + 1, ntok,
                            h + MAX(Len(split) - 1, 0) + 1,
                            Append(acc, Slice(buf, laststart, h)))

\* a split that always returns the subject as its one token
WholeSubject(buf, split) == <<buf>>

\* the tokens of one subject in the fixed branch, as byte strings
SplitFixed(buf, split) ==
    LET c == CountFixed(buf, split, 0, 0, 0)
        size == c.ntok + (IF c.laststart < Len(buf) THEN 1 ELSE 0)
        f == FillFixed(buf, split, 0, c.ntok, 0, <<>>)
        all == IF f.bufp < Len(buf)
               THEN Append(f.toks, Suffix(buf, f.bufp)) ELSE f.toks
    IN  \* t has size slots; a slot never set holds the empty string
        [k \in 1 .. size |-> IF k <= Len(all) THEN all[k] ELSE <<>>]

\* a split that cuts after every byte
SplitBytes(buf, p) == [k \in 1 .. (Len(buf) - p) |-> <<buf[p + k]>>]

\* the characters of a valid UTF-8 string, each as its bytes
RECURSIVE SplitChars(_, _)
SplitChars(buf, p) ==
    IF p >= Len(buf) THEN <<>>
    ELSE LET used == utf8clen(buf[p + 1])
         IN  <<Slice(buf, p, Min(p + used, Len(buf)))>> \o SplitChars(buf, p + used)

\* the warnings of one turn: invalid input up to the cap, an engine error
Warned(o, k, count) ==
    (IF o.bad /\ count < NWARN THEN <<<<k, "input string is invalid">>>> ELSE <<>>)
    \o (IF o.pw THEN <<<<k, "PCRE error">>>> ELSE <<>>)

\* the mode selection of do_strsplit
strsplit_mode(c) ==
    LET useBytes0 == c.useBytes
        haveBytes == AnyMarked(c.pat, "bytes") \/ AnyMarked(c.text, "bytes")
        perl == c.perl /\ ~c.fixed
        utf8 == \/ (perl /\ mbcslocale)
                \/ AnyMarked(c.pat, "utf8") \/ AnyMarked(c.text, "utf8")
                \/ (~latin1locale /\ (AnyMarked(c.pat, "latin1") \/ AnyMarked(c.text, "latin1")))
    IN  [useBytes |-> useBytes0 \/ haveBytes,
         use_UTF8 |-> ~useBytes0 /\ ~haveBytes /\ utf8,
         \* "ERE in wchar_t": the extended branch taken with use_UTF8
         use_WC   |-> ~c.fixed /\ ~perl /\ ~useBytes0 /\ ~haveBytes /\ utf8,
         perl     |-> perl]

\* a subject taken as it is, without validation
SubjectUnchecked(e, m) == [bad |-> FALSE, buf |-> CHAR(e)]

\* the translated subject of element e, or "bad" when it is invalid in the mode
Subject(e, m) ==
    IF m.useBytes THEN [bad |-> FALSE, buf |-> CHAR(e)]
    ELSE IF m.use_UTF8
    THEN [bad |-> ~utf8Valid(translateCharUTF8(e)), buf |-> translateCharUTF8(e)]
    ELSE [bad |-> mbcslocale /\ ~mbcsValid(translateChar(e)), buf |-> translateChar(e)]

\* the result for one non-NA subject of the empty-token branch
SplitEmpty(e, m, buf) ==
    IF ~m.useBytes /\ (m.use_UTF8 \/ mbcslocale) /\ ~strIsASCII(buf)
    THEN LET cs == SplitChars(buf, 0)
         IN  IF m.use_UTF8
             THEN [k \in 1 .. Len(cs) |-> mkCharCE(cs[k], "utf8")]
             ELSE [k \in 1 .. Len(cs) |-> markKnown(cs[k], e)]
    ELSE [k \in 1 .. Len(buf) |-> markKnown(<<buf[k]>>, e)]

\* one match of the regex branches, on the rest of the subject
split_exec(re, u, perl, utf) ==
    IF perl
    THEN IF utf /\ ~utf8Valid(u) THEN PCRE_ERROR ELSE pcre_exec(re, u, 0, FALSE, utf)
    ELSE tre_regexec(re, u, FALSE)

\* the two passes of a regex branch find the same matches: the tokens cut
\* from offset bufp on, r being the result of the engine on the rest of the
\* subject, with the rest after the last match as the last token, and the
\* last return code of the engine
RECURSIVE SplitRegexFrom(_, _, _, _, _, _, _, _)
SplitRegexFrom(re, buf, bufp, perl, utf, wide, acc, r) ==
    IF r.rc # 0
    THEN [toks |-> acc \o (IF bufp < Len(buf) THEN <<Suffix(buf, bufp)>> ELSE <<>>),
          rc |-> r.rc]
    ELSE LET tok == IF r.eo > 0 THEN Slice(buf, bufp, bufp + r.so)
                    \* an empty match takes the next character; the wide
                    \* branch then makes the token with length rm_so = 0
                    ELSE IF wide THEN <<>> ELSE <<buf[bufp + 1]>>
             b2 == bufp + MAX(r.eo, 1)
         IN  IF b2 >= Len(buf)
             THEN [toks |-> Append(acc, tok), rc |-> 0]
             ELSE SplitRegexFrom(re, buf, b2, perl, utf, wide, Append(acc, tok),
                                 split_exec(re, Suffix(buf, b2), perl, utf))

\* the tokens of one subject in a regex branch, in the units of the branch
SplitRegex(re, buf, perl, utf, wide) ==
    IF Len(buf) = 0 THEN [toks |-> <<>>, rc |-> 0]
    ELSE SplitRegexFrom(re, buf, 0, perl, utf, wide, <<>>,
                        split_exec(re, buf, perl, utf))

\* what one turn of the loop over x leaves: an error, or the tokens t, whether
\* the input was invalid (bad), whether an engine error was warned of (pw),
\* whether the element was split
Split(errmsg, t, bad, pw, matched) ==
    [err |-> errmsg, t |-> t, bad |-> bad, pw |-> pw, tried |-> matched]

\* the tokens as strings of the result: marked as UTF-8 (mkCharLenCE), or
\* marked as the element is (markKnown)
SplitMarked(toks, e, utf) ==
    [k \in 1 .. Len(toks) |->
        IF utf THEN mkCharCE(toks[k], "utf8") ELSE markKnown(toks[k], e)]

\* the tokens of the wide-character branch as strings of the result
SplitWide(toks) == [k \in 1 .. Len(toks) |-> mkCharW(toks[k])]

\* the outcomes of a regex branch whose passes gave f: an engine error may
\* be warned of
SplitOutcomes(f, e, utf) ==
    {Split("", SplitMarked(f.toks, e, utf), FALSE, w, TRUE) : w \in R_pcre_exec_error(f)}

\* every outcome of one non-Missing element whose translated subject is sub
strsplit_subject(e, this, m, fixed, re, sub) ==
    IF sub.bad THEN {Split("", <<NA_STRING>>, TRUE, FALSE, FALSE)}
    ELSE IF Len(CHAR(this)) = 0
    THEN {Split("", SplitEmpty(e, m, sub.buf), FALSE, FALSE, TRUE)}
    ELSE IF fixed
    THEN {Split("", SplitMarked(SplitFixed(sub.buf,
                                           IF m.useBytes THEN CHAR(this)
                                           ELSE IF m.use_UTF8 THEN translateCharUTF8(this)
                                           ELSE translateChar(this)),
                                e, m.use_UTF8),
                FALSE, FALSE, TRUE)}
    ELSE SplitOutcomes(SplitRegex(re, sub.buf, m.perl, m.use_UTF8, FALSE),
                       e, m.perl /\ m.use_UTF8)

\* every outcome of one element of x in the branch of the current token
strsplit_one(e, this, m, fixed, re) ==
    IF e.na THEN {Split("", <<NA_STRING>>, FALSE, FALSE, FALSE)}
    ELSE IF Len(CHAR(this)) > 0 /\ ~fixed /\ m.use_WC
    THEN {IF w.bad THEN Split("invalid input in wtransChar", <<>>, FALSE, FALSE, FALSE)
          ELSE Split("", SplitWide(SplitRegex(re, w.w, FALSE, FALSE, TRUE).toks),
                     FALSE, FALSE, TRUE) : w \in wtransCharAny(e)}
    ELSE strsplit_subject(e, this, m, fixed, re, Subject(e, m))

\* every index below len
EveryIndex(from, step, len) == 0 .. (len - 1)

\* the indices i = itok, itok + tlen, ... below len (0-based)
Stride(from, step, len) == {k \in 0 .. (len - 1) : k >= from /\ (k - from) % step = 0}

\* argument checks and mode selection
do_strsplit_intake ==
    /\ pc = "intake" /\ call.op = "strsplit"
    /\ mode' = strsplit_mode(call)
    /\ ans' = [k \in 1 .. Len(call.text) |-> <<UNSET>>]
    /\ itok' = 0
    /\ pc' = "tok"
    /\ UNCHANGED <<R_interrupts_pending, call, i, ind, g, compiled, tried, mt, nwarn, warns, err>>

\* the head of one turn of the loop over the tokens: a Missing token answers
\* its elements; otherwise the token is validated and, in a regex branch,
\* compiled
strsplit_token ==
    /\ pc = "tok" /\ call.op = "strsplit" /\ itok < Len(call.pat)
    /\ LET this == call.pat[itok + 1]
           tlen == Len(call.pat)
           len == Len(call.text)
           regex == Len(CHAR(this)) > 0 /\ ~call.fixed
       IN  IF this.na
           THEN /\ ans' = [k \in 1 .. len |->
                              IF (k - 1) \in Stride(itok, tlen, len)
                              THEN <<call.text[k]>> ELSE ans[k]]
                /\ itok' = itok + 1
                /\ UNCHANGED <<pc, i, err, g, compiled>>
           ELSE IF Len(CHAR(this)) > 0 /\ ~(regex /\ mode.use_WC) /\ Subject(this, mode).bad
           THEN /\ pc' = "error"
                /\ err' = "'split' string is invalid"
                /\ UNCHANGED <<ans, itok, i, g, compiled>>
           ELSE /\ pc' = "loop"
                /\ i' = itok
                /\ g' = IF regex
                        THEN [re |-> regcomp(Subject(this, mode).buf, mode.use_WC)]
                        ELSE g
                /\ compiled' = IF regex THEN "live" ELSE compiled
                /\ UNCHANGED <<ans, itok, err>>
    /\ UNCHANGED <<R_interrupts_pending, call, mode, ind, tried, mt, nwarn, warns>>

\* one element of x under the current token
strsplit_elt ==
    /\ pc = "loop" /\ call.op = "strsplit" /\ i < Len(call.text)
    /\ \E r \in strsplit_one(call.text[i + 1], call.pat[itok + 1], mode, call.fixed,
                             IF call.fixed \/ Len(CHAR(call.pat[itok + 1])) = 0
                             THEN NoRe ELSE g.re) :
          IF r.err # ""
          THEN /\ pc' = "error" /\ err' = r.err
               /\ UNCHANGED <<ans, nwarn, warns, tried, i>>
          ELSE /\ ans' = [ans EXCEPT ![i + 1] = r.t]
               /\ nwarn' = IF r.bad THEN nwarn + 1 ELSE nwarn
               /\ warns' = warns \o Warned(r, i, nwarn)
               /\ tried' = IF r.tried THEN tried \cup {i} ELSE tried
               /\ i' = i + Len(call.pat)
               /\ UNCHANGED <<pc, err>>
    /\ UNCHANGED <<R_interrupts_pending, call, mode, itok, ind, g, compiled, mt>>

\* the end of one turn of the loop over the tokens: the compiled token is freed
strsplit_token_end ==
    /\ pc = "loop" /\ call.op = "strsplit" /\ i >= Len(call.text)
    /\ itok' = itok + 1
    /\ compiled' = IF compiled = "live" THEN "freed" ELSE compiled
    /\ pc' = "tok"
    /\ UNCHANGED <<R_interrupts_pending, call, mode, i, ans, ind, g, tried, mt, nwarn, warns, err>>

strsplit_finish ==
    /\ pc = "tok" /\ call.op = "strsplit" /\ itok >= Len(call.pat)
    /\ pc' = "done"
    /\ UNCHANGED <<R_interrupts_pending, call, mode, itok, i, ans, ind, g, compiled, tried, mt, nwarn, warns, err>>

(***************************************************************************)
(* The calls                                                               *)
(***************************************************************************)
Str(cs) == mkElt(Encode(cs), "native")

\* the split tokens: NA, "", "a", "aa", and e-acute marked as UTF-8
SplitTokens == {NA_STRING, Str(<<>>), Str(<<97>>), Str(<<97, 97>>),
                mkElt(Encode(<<233>>), "utf8"), mkElt(<<195>>, "native")}

NoRep == Str(<<>>)

mkCall(op, pat, rep, text, fixed, perl, useBytes, value, invert) ==
    [op |-> op, pat |-> pat, rep |-> rep, text |-> text, fixed |-> fixed,
     perl |-> perl, useBytes |-> useBytes, value |-> value, invert |-> invert]

\* the split tokens of the regex dialects: NA, "" and the sources the engines know
SplitRegexes == {NA_STRING, Str(<<>>)} \cup {mkCharCE(p, "utf8") : p \in RegexSources}

SplitCalls ==
    {mkCall("strsplit", <<t>>, NoRep, x, TRUE, FALSE, ub, FALSE, FALSE) :
        t \in SplitTokens, x \in TextVectors, ub \in BOOLEAN}
    \cup
    {mkCall("strsplit", <<t>>, NoRep, x, FALSE, q[1], q[2], FALSE, FALSE) :
        t \in SplitRegexes, x \in TextVectors, q \in BOOLEAN \X BOOLEAN}

NoMode == [useBytes |-> FALSE, use_UTF8 |-> FALSE, use_WC |-> FALSE, perl |-> FALSE]
NoG == [offset |-> 0]

\* the state on entry, whatever the call
InitRest ==
    /\ mode = NoMode
    /\ pc = "intake"
    /\ itok = 0
    /\ i = 0
    /\ ans = <<>>
    /\ ind = <<>>
    /\ g = NoG
    /\ compiled = "none"
    /\ tried = {}
    /\ mt = <<>>
    /\ nwarn = 0
    /\ warns = <<>>
    /\ err = ""
    /\ R_interrupts_pending = FALSE

InitSplit == call \in SplitCalls /\ InitRest

NextSplit ==
    \/ do_strsplit_intake
    \/ strsplit_token
    \/ strsplit_elt
    \/ strsplit_token_end
    \/ strsplit_finish

SpecSplit == InitSplit /\ [][NextSplit]_vars

(***************************************************************************)
(* Properties of strsplit                                                  *)
(***************************************************************************)
\* the start offsets of the leftmost non-overlapping occurrences of pat in s,
\* scanning from offset k
RECURSIVE Occurrences(_, _, _)
Occurrences(s, pat, k) ==
    IF k + Len(pat) > Len(s) THEN <<>>
    ELSE IF StartsWithAt(s, k, pat) THEN <<k>> \o Occurrences(s, pat, k + Len(pat))
    ELSE Occurrences(s, pat, k + 1)

\* the end of the last occurrence, or the start of the subject
TailStart(s, pat) ==
    LET occ == Occurrences(s, pat, 0)
    IN  IF occ = <<>> THEN 0 ELSE occ[Len(occ)] + Len(pat)

\* the slices between consecutive occurrences, then the tail when it is not empty
TokensBetween(s, pat) ==
    LET occ == Occurrences(s, pat, 0)
        from(j) == IF j = 1 THEN 0 ELSE occ[j - 1] + Len(pat)
    IN  [j \in 1 .. Len(occ) |-> Slice(s, from(j), occ[j])]
            \o (IF TailStart(s, pat) < Len(s) THEN <<Suffix(s, TailStart(s, pat))>> ELSE <<>>)

EndsAtOccurrence(s, pat) ==
    Occurrences(s, pat, 0) # <<>> /\ TailStart(s, pat) = Len(s)

Bytes(t) == [j \in 1 .. Len(t) |-> t[j].s]

TokenOf(k) == call.pat[((k - 1) % Len(call.pat)) + 1]

\* element k of a finished split by a non-empty literal token, the subject
\* neither Missing nor invalid in the mode
FixedSplitCase(k) ==
    /\ pc = "done" /\ call.op = "strsplit" /\ call.fixed
    /\ ~TokenOf(k).na /\ Len(TokenOf(k).s) > 0
    /\ ~call.text[k].na
    /\ ~Subject(call.text[k], mode).bad

\* C1 (as amended): the tokens of a literal split are the slices between
\* consecutive leftmost non-overlapping occurrences, then the tail only when
\* it is not empty; their number is occurrences + 1 iff that tail is not empty
\* and the number of occurrences otherwise (so an empty subject has no token).
C1_FixedSplitTokens ==
    \A k \in 1 .. Len(call.text) :
        FixedSplitCase(k) =>
            LET s == call.text[k].s
                pat == TokenOf(k).s
                nocc == Len(Occurrences(s, pat, 0))
            IN  /\ Bytes(ans[k]) = TokensBetween(s, pat)
                /\ Len(ans[k]) = nocc + 1 <=> TailStart(s, pat) < Len(s)
                /\ TailStart(s, pat) >= Len(s) => Len(ans[k]) = nocc

\* a subject with an occurrence and a non-empty tail has been split
C1_Witness ==
    \E k \in 1 .. Len(call.text) :
        /\ FixedSplitCase(k)
        /\ Len(Occurrences(call.text[k].s, TokenOf(k).s, 0)) >= 1
        /\ TailStart(call.text[k].s, TokenOf(k).s) < Len(call.text[k].s)
        /\ Len(ans[k]) >= 2

\* C1 as stated: the number of tokens is occurrences + 1 iff the subject does
\* not end at an occurrence
C1_AsStated ==
    \A k \in 1 .. Len(call.text) :
        FixedSplitCase(k) =>
            LET s == call.text[k].s
                pat == TokenOf(k).s
                nocc == Len(Occurrences(s, pat, 0))
            IN  /\ Bytes(ans[k]) = TokensBetween(s, pat)
                /\ Len(ans[k]) = nocc + 1 <=> ~EndsAtOccurrence(s, pat)
                /\ EndsAtOccurrence(s, pat) => Len(ans[k]) = nocc

(***************************************************************************)
(* sub and gsub                                                            *)
(***************************************************************************)
\* toupper and tolower of the C locale, on one byte
toupper(c) == IF c >= 97 /\ c <= 122 THEN c - 32 ELSE c
tolower(c) == IF c >= 65 /\ c <= 90 THEN c + 32 ELSE c

\* towctrans on one wide character: ASCII and Latin-1 letters
towupper(c) ==
    IF (c >= 97 /\ c <= 122) \/ (c >= 224 /\ c <= 254 /\ c # 247) THEN c - 32 ELSE c
towlower(c) ==
    IF (c >= 65 /\ c <= 90) \/ (c >= 192 /\ c <= 222 /\ c # 215) THEN c + 32 ELSE c

\* regmatch[k].rm_so and rm_eo, ovector[2k] and ovector[2k+1]
GroupSo(r, k) == IF k = 0 THEN r.so ELSE IF k = 1 THEN r.gso ELSE -1
GroupEo(r, k) == IF k = 0 THEN r.eo ELSE IF k = 1 THEN r.geo ELSE -1

\* the return value of a successful pcre_exec: highest group set, plus one
ncapOf(r) == IF r.gso >= 0 THEN 2 ELSE 1

\* orig[rm_so, rm_eo) of group k; nothing when the group is unset
GroupText(orig, r, k) ==
    IF GroupSo(r, k) < GroupEo(r, k) THEN Slice(orig, GroupSo(r, k), GroupEo(r, k))
    ELSE <<>>

RECURSIVE string_adj_from(_, _, _, _)
string_adj_from(orig, repl, regmatch, p) ==
    IF p >= Len(repl) THEN <<>>
    ELSE IF repl[p + 1] # 92
    THEN <<repl[p + 1]>> \o string_adj_from(orig, repl, regmatch, p + 1)
    ELSE IF p + 1 < Len(repl) /\ repl[p + 2] >= 49 /\ repl[p + 2] <= 57
    THEN GroupText(orig, regmatch, repl[p + 2] - 48)
             \o string_adj_from(orig, repl, regmatch, p + 2)
    ELSE IF p + 1 >= Len(repl) THEN string_adj_from(orig, repl, regmatch, p + 1)
    ELSE <<repl[p + 2]>> \o string_adj_from(orig, repl, regmatch, p + 2)

\* the output buffer after the expansion of repl has been written at its end
string_adj(target, orig, repl, regmatch) ==
    target \o string_adj_from(orig, repl, regmatch, 0)

\* the text of group k whatever the case flag is
GroupUncased(orig, ovec, k, use_UTF8, cs) == GroupText(orig, ovec, k)

\* the bytes written for group k under the case mode cs ("U", "L" or "")
GroupCased(orig, ovec, k, use_UTF8, cs) ==
    LET grp == GroupText(orig, ovec, k)
    IN  IF Len(grp) > 0 /\ use_UTF8 /\ cs # ""
        THEN LET wc == Decode(grp)
             IN  Encode([j \in 1 .. Len(wc) |->
                            IF cs = "U" THEN towupper(wc[j]) ELSE towlower(wc[j])])
        ELSE [j \in 1 .. Len(grp) |->
                 IF cs = "U" THEN toupper(grp[j])
                 ELSE IF cs = "L" THEN tolower(grp[j]) ELSE grp[j]]

RECURSIVE R_pcre_string_adj_from(_, _, _, _, _, _, _)
R_pcre_string_adj_from(orig, repl, ovec, use_UTF8, ncap, p, cs) ==
    IF p >= Len(repl) THEN <<>>
    ELSE IF repl[p + 1] # 92
    THEN <<repl[p + 1]>>
             \o R_pcre_string_adj_from(orig, repl, ovec, use_UTF8, ncap, p + 1, cs)
    ELSE IF p + 1 >= Len(repl)
    THEN R_pcre_string_adj_from(orig, repl, ovec, use_UTF8, ncap, p + 1, cs)
    ELSE LET c == repl[p + 2]
         IN  IF c >= 49 /\ c <= 57
             THEN (IF c - 48 >= ncap THEN <<>>
                   ELSE GroupCased(orig, ovec, c - 48, use_UTF8, cs))
                      \o R_pcre_string_adj_from(orig, repl, ovec, use_UTF8, ncap, p + 2, cs)
             ELSE IF c = 85
             THEN R_pcre_string_adj_from(orig, repl, ovec, use_UTF8, ncap, p + 2, "U")
             ELSE IF c = 76
             THEN R_pcre_string_adj_from(orig, repl, ovec, use_UTF8, ncap, p + 2, "L")
             ELSE IF c = 69
             THEN R_pcre_string_adj_from(orig, repl, ovec, use_UTF8, ncap, p + 2, "")
             ELSE <<c>> \o R_pcre_string_adj_from(orig, repl, ovec, use_UTF8, ncap, p + 2, cs)

R_pcre_string_adj(target, orig, repl, ovec, use_UTF8, ncap) ==
    target \o R_pcre_string_adj_from(orig, repl, ovec, use_UTF8, ncap, 0, "")

\* the mode selection of do_gsub
gsub_mode(c) ==
    LET pat == c.pat[1]
        rep == c.rep
        n == Len(c.text)
        onlyASCII == /\ IS_ASCII(pat) /\ IS_ASCII(rep)
                     /\ \A k \in 1 .. n : c.text[k].na \/ IS_ASCII(c.text[k])
        haveBytes == IS_BYTES(pat) \/ IS_BYTES(rep) \/ AnyMarked(c.text, "bytes")
        useBytes == c.useBytes \/ onlyASCII \/ haveBytes
        perl == c.perl /\ ~c.fixed
        utf8 == /\ ~useBytes
                /\ \/ (~c.fixed /\ mbcslocale)
                   \/ IS_UTF8(pat) \/ IS_UTF8(rep)
                   \/ AnyMarked(c.text, "utf8")
                   \/ (~latin1locale /\ AnyMarked(c.text, "latin1"))
        ere == ~c.fixed /\ ~perl
        utf8b == IF ere /\ ~useBytes /\ mbcslocale /\ ~utf8locale THEN TRUE ELSE utf8
    IN  [useBytes |-> useBytes,
         use_UTF8 |-> IF ere THEN FALSE ELSE utf8,
         use_WC   |-> IF ere THEN utf8b ELSE FALSE,
         perl     |-> perl]

\* the loop state on entry: offset, eflag(s) NOTBOL, last_end, the output
\* written so far, nmatch, and the matches found so far
LoopStart == [offset |-> 0, eflag |-> FALSE, last_end |-> -1, u |-> <<>>,
              nmatch |-> 0, tr |-> <<>>]

\* a guard that lets every match through
AnyEnd(found, last_end) == TRUE

\* a test that also passes a match that ends where the last one ended
EndsAtOrBeyond(found, last_end) == found >= last_end

\* the guard of the expansion: the match ends beyond the last replaced one
EndsBeyond(found, last_end) == found > last_end

\* the end of the character of s that holds the byte at offset
RECURSIVE CharEndAfter(_, _, _)
CharEndAfter(s, pos, offset) ==
    LET used == utf8clen(s[pos + 1])
    IN  IF pos + used > offset THEN pos + used
        ELSE CharEndAfter(s, pos + used, offset)

\* a copy that writes nothing
SkipRange(u, s, from, to) == u

\* for (j = from; j < to; j++) *u++ = s[j]
CopyRange(u, s, from, to) == u \o Slice(s, from, to)

\* advance by a char after an empty match
AdvanceChar(s, offset, use_UTF8) ==
    IF use_UTF8 THEN CharEndAfter(s, 0, offset) ELSE offset + 1

\* the match loop of the Perl branch
RECURSIVE gsub_pcre_loop(_, _, _, _, _, _)
gsub_pcre_loop(re, s, srep, global, use_UTF8, st) ==
    LET r == pcre_exec(re, s, st.offset, st.eflag, use_UTF8)
    IN  IF r.rc # 0 THEN st
        ELSE LET u1 == CopyRange(st.u, s, st.offset, r.so)
                 doRep == st.last_end = -1 \/ EndsBeyond(r.eo, st.last_end)
                 u2 == IF doRep
                       THEN R_pcre_string_adj(u1, s, srep, r, use_UTF8, ncapOf(r))
                       ELSE u1
                 st1 == [offset |-> r.eo, eflag |-> st.eflag,
                         last_end |-> IF doRep THEN r.eo ELSE st.last_end,
                         u |-> u2, nmatch |-> st.nmatch + 1,
                         tr |-> Append(st.tr, [so |-> r.so, eo |-> r.eo, rep |-> doRep,
                                               exp |-> SubSeq(u2, Len(u1) + 1, Len(u2))])]
             IN  IF r.eo >= Len(s) \/ ~global THEN st1
                 ELSE LET off2 == IF r.eo = r.so THEN AdvanceChar(s, r.eo, use_UTF8)
                                  ELSE r.eo
                      IN  gsub_pcre_loop(re, s, srep, global, use_UTF8,
                              [st1 EXCEPT !.offset = off2,
                                          !.u = CopyRange(u2, s, r.eo, off2),
                                          !.eflag = TRUE])

\* the match loop of the two extended branches (bytes, wide characters)
RECURSIVE gsub_tre_loop(_, _, _, _, _)
gsub_tre_loop(re, s, srep, global, st) ==
    LET r == tre_regexec(re, Suffix(s, st.offset), st.eflag)
    IN  IF r.rc # 0 THEN st
        ELSE LET u1 == CopyRange(st.u, s, st.offset, st.offset + r.so)
                 off1 == st.offset + r.eo
                 doRep == EndsBeyond(off1, st.last_end)
                 u2 == IF doRep THEN string_adj(u1, Suffix(s, st.offset), srep, r)
                       ELSE u1
                 st1 == [offset |-> off1, eflag |-> st.eflag,
                         last_end |-> IF doRep THEN off1 ELSE st.last_end,
                         u |-> u2, nmatch |-> st.nmatch + 1,
                         tr |-> Append(st.tr, [so |-> st.offset + r.so, eo |-> off1,
                                               rep |-> doRep,
                                               exp |-> SubSeq(u2, Len(u1) + 1, Len(u2))])]
             IN  IF off1 >= Len(s) \/ ~global THEN st1
                 ELSE LET off2 == IF r.eo = r.so THEN AdvanceChar(s, off1, FALSE)
                                  ELSE off1
                      IN  gsub_tre_loop(re, s, srep, global,
                              [st1 EXCEPT !.offset = off2,
                                          !.u = CopyRange(u2, s, off1, off2),
                                          !.eflag = TRUE])

\* the copy loop of the literal branch; st is the match offset in the rest of s
RECURSIVE gsub_fixed_loop(_, _, _, _, _, _, _, _)
gsub_fixed_loop(spat, srep, s, base, st, global, m, acc) ==
    LET patlen == Len(spat)
        u2 == CopyRange(acc.u, s, base, base + st) \o srep
        base2 == base + st + patlen
        acc2 == [u |-> u2, offset |-> base2,
                 tr |-> Append(acc.tr, [so |-> base + st, eo |-> base2, rep |-> TRUE,
                                        exp |-> srep])]
        st2 == IF global
               THEN fgrep_one_bytes(spat, Suffix(s, base2), Len(s) - base2,
                                    m.useBytes, m.use_UTF8)
               ELSE -1
    IN  IF st2 >= 0 THEN gsub_fixed_loop(spat, srep, s, base2, st2, global, m, acc2)
        ELSE acc2

\* the translated pattern and replacement, or the error of their validation
gsub_strings(c, m) ==
    LET pat == c.pat[1]
        rep == c.rep
    IN  IF m.useBytes THEN [err |-> "", spat |-> CHAR(pat), srep |-> CHAR(rep)]
        ELSE IF m.use_WC
        THEN [err |-> "", spat |-> CHAR(pat), srep |-> wtransChar(rep)]
        ELSE IF m.use_UTF8
        THEN [err |-> IF ~utf8Valid(translateCharUTF8(pat)) THEN "'pattern' is invalid UTF-8"
                      ELSE IF ~utf8Valid(translateCharUTF8(rep))
                      THEN "'replacement' is invalid UTF-8" ELSE "",
              spat |-> translateCharUTF8(pat), srep |-> translateCharUTF8(rep)]
        ELSE [err |-> IF mbcslocale /\ ~mbcsValid(translateChar(pat))
                      THEN "'pattern' is invalid in this locale"
                      ELSE IF mbcslocale /\ ~mbcsValid(translateChar(rep))
                      THEN "'replacement' is invalid in this locale" ELSE "",
              spat |-> translateChar(pat), srep |-> translateChar(rep)]

\* a vector without an element
NoStrings(n) == <<>>

\* a vector of n Missing strings
AllNAStrings(n) == [k \in 1 .. n |-> NA_STRING]

\* argument checks, mode selection, translation and compilation
do_gsub_intake ==
    /\ pc = "intake" /\ call.op \in {"sub", "gsub"}
    /\ LET n == Len(call.text)
           m == gsub_mode(call)
           ps == gsub_strings(call, m)
       IN  IF call.pat[1].na
           THEN /\ ans' = AllNAStrings(n)
                /\ pc' = "done"
                /\ UNCHANGED <<mode, g, compiled, err, mt>>
           ELSE IF ps.err # ""
           THEN /\ pc' = "error" /\ err' = ps.err /\ mode' = m
                /\ UNCHANGED <<ans, g, compiled, mt>>
           ELSE IF call.fixed /\ Len(ps.spat) = 0
           THEN /\ pc' = "error" /\ err' = "zero-length pattern" /\ mode' = m
                /\ UNCHANGED <<ans, g, compiled, mt>>
           ELSE /\ mode' = m
                /\ g' = [spat |-> ps.spat, srep |-> ps.srep,
                         re |-> IF call.fixed THEN NoRe ELSE regcomp(ps.spat, m.use_WC)]
                /\ compiled' = IF call.fixed THEN "none" ELSE "live"
                /\ ans' = [k \in 1 .. n |-> UNSET]
                /\ mt' = [k \in 1 .. n |-> <<>>]
                /\ pc' = "loop"
                /\ err' = err
    /\ i' = 0
    /\ UNCHANGED <<R_interrupts_pending, call, itok, ind, tried, nwarn, warns>>

\* the result string of one element from the buffer cbuf
gsub_mk(cbuf, e, m) ==
    IF m.use_WC THEN mkCharW(cbuf)
    ELSE IF m.useBytes THEN mkChar(cbuf)
    ELSE IF m.use_UTF8 THEN mkCharCE(cbuf, "utf8")
    ELSE markKnown(cbuf, e)

Outcome(errmsg, elt, tr, matched) ==
    [err |-> errmsg, elt |-> elt, tr |-> tr, tried |-> matched]

\* the end of one element of the two regex branches: st is the final loop state
gsub_finish_elt(st, s, e, c, m) ==
    IF st.nmatch = 0 THEN Outcome("", e, st.tr, TRUE)
    ELSE IF c.rep.na THEN Outcome("", NA_STRING, st.tr, TRUE)
    ELSE Outcome("", gsub_mk(st.u \o Suffix(s, st.offset), e, m), st.tr, TRUE)

\* one non-Missing element whose subject s is in hand
gsub_subject(s, e, c, m, gg) ==
    LET global == c.op = "gsub"
    IN  IF c.fixed
        THEN LET st == fgrep_one_bytes(gg.spat, s, Len(s), m.useBytes, m.use_UTF8)
             IN  IF st < 0 THEN Outcome("", e, <<>>, TRUE)
                 ELSE IF c.rep.na THEN Outcome("", NA_STRING, <<>>, TRUE)
                 ELSE LET f == gsub_fixed_loop(gg.spat, gg.srep, s, 0, st, global, m,
                                               [u |-> <<>>, offset |-> 0, tr |-> <<>>])
                      IN  Outcome("", gsub_mk(f.u \o Suffix(s, f.offset), e, m), f.tr, TRUE)
        ELSE IF m.perl
        THEN gsub_finish_elt(gsub_pcre_loop(gg.re, s, gg.srep, global, m.use_UTF8, LoopStart),
                             s, e, c, m)
        ELSE gsub_finish_elt(gsub_tre_loop(gg.re, s, gg.srep, global, LoopStart),
                             s, e, c, m)

\* every outcome of one turn of the loop over the elements
gsub_one(e, c, m, gg) ==
    IF e.na THEN {Outcome("", NA_STRING, <<>>, FALSE)}
    ELSE IF m.use_WC
    THEN {IF w.bad THEN Outcome("invalid input in wtransChar", e, <<>>, FALSE)
          ELSE gsub_subject(w.w, e, c, m, gg) : w \in wtransCharAny(e)}
    ELSE IF Subject(e, m).bad
    THEN {Outcome("input string is invalid", e, <<>>, FALSE)}
    ELSE {gsub_subject(Subject(e, m).buf, e, c, m, gg)}

\* one turn of the loop over the elements
gsub_elt ==
    /\ pc = "loop" /\ call.op \in {"sub", "gsub"} /\ i < Len(call.text)
    /\ \E o \in gsub_one(call.text[i + 1], call, mode, g) :
          IF o.err # ""
          THEN /\ pc' = "error" /\ err' = o.err
               /\ UNCHANGED <<ans, mt, tried, i>>
          ELSE /\ ans' = [ans EXCEPT ![i + 1] = o.elt]
               /\ mt' = [mt EXCEPT ![i + 1] = o.tr]
               /\ tried' = IF o.tried THEN tried \cup {i} ELSE tried
               /\ i' = i + 1
               /\ UNCHANGED <<pc, err>>
    /\ UNCHANGED <<R_interrupts_pending, call, mode, itok, ind, g, compiled, nwarn, warns>>

\* the compiled pattern is freed and the vector returned
gsub_finish ==
    /\ pc = "loop" /\ call.op \in {"sub", "gsub"} /\ i >= Len(call.text)
    /\ compiled' = IF compiled = "live" THEN "freed" ELSE compiled
    /\ pc' = "done"
    /\ UNCHANGED <<R_interrupts_pending, call, mode, itok, i, ans, ind, g, tried, mt, nwarn, warns, err>>

\* the patterns of the literal dialect: NA, "a", "aa", e-acute, "" and a
\* truncated UTF-8 sequence
FixedPats == {NA_STRING, Str(<<97>>), Str(<<97, 97>>), mkElt(Encode(<<233>>), "utf8"),
              Str(<<>>), mkElt(<<195>>, "native")}

\* the patterns of the regex dialects: NA and the sources the engines know
RegexPats == {NA_STRING} \cup {mkCharCE(p, "utf8") : p \in RegexSources}

\* the replacements: "-", "\1" and NA
Reps0 == {Str(<<45>>), Str(<<92, 49>>), NA_STRING}

\* a call of sub or gsub
IsSubCall(c) ==
    \E op \in {"sub", "gsub"}, fixed \in BOOLEAN, perl \in BOOLEAN, ub \in BOOLEAN :
        /\ fixed => ~perl
        /\ \E p \in (IF fixed THEN FixedPats ELSE RegexPats), r \in Reps0, x \in TextVectors :
              c = mkCall(op, <<p>>, r, x, fixed, perl, ub, FALSE, FALSE)

InitSub == IsSubCall(call) /\ InitRest

NextSub == do_gsub_intake \/ gsub_elt \/ gsub_finish

SpecSub == InitSub /\ [][NextSub]_vars

(***************************************************************************)
(* Properties of sub and gsub                                              *)
(***************************************************************************)
\* the subject in the units the matcher works in, and a buffer back in bytes
Units(e) == IF mode.use_WC THEN Decode(e.s) ELSE e.s
ToBytes(u) == IF mode.use_WC THEN Encode(u) ELSE u

\* element k of a finished sub or gsub call with a pattern: the element is
\* not Missing and is a valid string
SubCase(k) ==
    /\ pc = "done" /\ call.op \in {"sub", "gsub"}
    /\ ~call.pat[1].na
    /\ ~call.text[k].na
    /\ mode.use_WC => utf8Valid(call.text[k].s)

\* the gaps of s between the replaced matches of tr, from match k on, each
\* followed by the expansion written for the match, then the tail
RECURSIVE Rebuild(_, _, _, _)
Rebuild(s, tr, k, from) ==
    IF k > Len(tr) THEN Suffix(s, from)
    ELSE IF tr[k].rep
    THEN Slice(s, from, tr[k].so) \o tr[k].exp \o Rebuild(s, tr, k + 1, tr[k].eo)
    ELSE Rebuild(s, tr, k + 1, from)

\* C2: in sub and gsub the output is exactly the subject's gaps between the
\* replaced match ranges, verbatim and in order, interleaved with the expanded
\* replacements, the character stepped over after an empty match and the
\* tail after the last match included.
C2_GapsPreserved ==
    \A k \in 1 .. Len(call.text) :
        (SubCase(k) /\ ~ans[k].na) =>
            ans[k].s = ToBytes(Rebuild(Units(call.text[k]), mt[k], 1, 0))

\* a gsub result with an empty match stepped over, a replaced match and gaps
C2_Witness ==
    \E k \in 1 .. Len(call.text) :
        /\ SubCase(k) /\ ~ans[k].na /\ call.op = "gsub"
        /\ Len(mt[k]) >= 2
        /\ \E j \in 1 .. Len(mt[k]) : mt[k][j].so = mt[k][j].eo /\ mt[k][j].eo < Len(Units(call.text[k]))
        /\ \E j \in 1 .. Len(mt[k]) : mt[k][j].rep /\ mt[k][j].so > 0
        /\ ans[k].s # call.text[k].s

\* the offsets a match may start at: character boundaries in UTF-8 mode
StartsOf(s) ==
    IF mode.perl /\ mode.use_UTF8 THEN {p \in 0 .. Len(s) : IsBoundary(s, p)}
    ELSE 0 .. Len(s)

\* the leftmost match at or after offset, as [so, eo], or <<>>
MatchFrom(s, offset) ==
    IF call.fixed
    THEN LET occ == Occurrences(s, g.spat, offset)
         IN  IF occ = <<>> THEN <<>> ELSE <<[so |-> occ[1], eo |-> occ[1] + Len(g.spat)]>>
    ELSE LET r == RegSearch(g.re, s, offset, offset = 0, StartsOf(s))
         IN  IF r.rc # 0 THEN <<>> ELSE <<[so |-> r.so, eo |-> r.eo]>>

\* the successive non-overlapping matches of a left-to-right scan: the next
\* search starts at the end of the match, one character later when the match
\* is empty, and the scan stops at the end of the subject
RECURSIVE ScanMatches(_, _)
ScanMatches(s, offset) ==
    LET f == MatchFrom(s, offset)
    IN  IF f = <<>> THEN <<>>
        ELSE IF f[1].eo >= Len(s) THEN f
        ELSE IF f[1].eo > f[1].so THEN f \o ScanMatches(s, f[1].eo)
        ELSE f \o ScanMatches(s, CHOOSE p \in StartsOf(s) :
                                   p > f[1].eo /\ \A q \in StartsOf(s) : q > f[1].eo => p <= q)

\* the matches sub or gsub is to find in s
Expected(s) ==
    LET all == ScanMatches(s, 0)
    IN  IF call.op = "sub" /\ all # <<>> THEN <<all[1]>> ELSE all

\* the end of the last match before j that is replaced under the rule, or -1
RECURSIVE LastEnd(_, _)
LastEnd(f, j) ==
    IF j <= 1 THEN -1
    ELSE IF f[j - 1].eo > LastEnd(f, j - 1) THEN f[j - 1].eo
    ELSE LastEnd(f, j - 1)

\* match j is replaced: always, or only when it ends beyond the last replaced one
IsReplaced(f, j, rule) == rule = "always" \/ f[j].eo > LastEnd(f, j)

\* the found matches with the expansions written for them
Replaced(f, tr, rule) ==
    [j \in 1 .. Len(f) |->
        [so |-> f[j].so, eo |-> f[j].eo, rep |-> IsReplaced(f, j, rule),
         exp |-> IF IsReplaced(f, j, rule) /\ j <= Len(tr) THEN tr[j].exp ELSE <<>>]]

SameRanges(f, tr) ==
    /\ Len(tr) = Len(f)
    /\ \A j \in 1 .. Len(f) : tr[j].so = f[j].so /\ tr[j].eo = f[j].eo


\* element k of a finished sub or gsub call, replacement not Missing
ReplaceCase(k) == SubCase(k) /\ ~call.rep.na

\* what the claim says of element k when the matches are replaced by the rule
ReplacesMatches(k, rule) ==
    LET s == Units(call.text[k])
        f == Expected(s)
    IN  /\ f = <<>> => ans[k] = call.text[k]
        /\ SameRanges(f, mt[k])
        /\ \A j \in 1 .. Len(f) : mt[k][j].rep = IsReplaced(f, j, rule)
        /\ f # <<>> => ans[k].s = ToBytes(Rebuild(s, Replaced(f, mt[k], rule), 1, 0))

\* C3 (as amended): sub replaces only the first (leftmost) match; gsub
\* replaces every successive non-overlapping match of the left-to-right scan
\* except an empty match that ends where the last replaced match ended; an
\* element without a match is returned as the identical input element.
C3_ReplacesMatches ==
    \A k \in 1 .. Len(call.text) : ReplaceCase(k) => ReplacesMatches(k, "beyond")

\* gsub has replaced two matches of an element, sub the first of two
C3_Witness ==
    \E k \in 1 .. Len(call.text) :
        /\ ReplaceCase(k)
        /\ Len(ScanMatches(Units(call.text[k]), 0)) >= 2
        /\ \/ call.op = "sub" /\ Len(mt[k]) = 1
           \/ call.op = "gsub" /\ Len(mt[k]) >= 2 /\ mt[k][1].rep /\ mt[k][2].rep

\* C3 as stated: gsub replaces every match found by the scan
C3_AsStated ==
    \A k \in 1 .. Len(call.text) : ReplaceCase(k) => ReplacesMatches(k, "always")

(***************************************************************************)
(* regexpr and gregexpr                                                    *)
(***************************************************************************)
\* the number of characters that start in the st bytes of s from offset base
RECURSIVE getNcFrom(_, _, _, _, _)
getNcFrom(s, base, k, st, nc) ==
    IF k >= st THEN nc
    ELSE getNcFrom(s, base, k + utf8clen(s[base + k + 1]), st, nc + 1)

\* a mapper that takes every byte for a character
getNcBytes(s, base, st) == st

getNc(s, base, st) == getNcFrom(s, base, 0, st, 0)

\* a result slot of an integer vector that is allocated and not written
UNSET_INT == NA_INTEGER + 1

\* one (start, end) pair of the ovector, in bytes, to the 1-based start and
\* the length in the unit of the mode
ovector_extract_start_length(use_UTF8, so, eo, string) ==
    LET st == so
        len == eo - st
    IN  IF ~use_UTF8 THEN [m |-> st + 1, len |-> len]
        ELSE [m |-> IF st > 0 THEN 1 + getNc(string, 0, st) ELSE st + 1,
              len |-> getNc(string, st, len)]

\* the match and the capture group of one result of the Perl engine
extract_match_and_groups(use_UTF8, r, capture_count, string) ==
    LET m == ovector_extract_start_length(use_UTF8, r.so, r.eo, string)
        c == ovector_extract_start_length(use_UTF8, r.gso, r.geo, string)
    IN  [m |-> m.m, len |-> m.len,
         cs |-> IF capture_count > 0 THEN <<c.m>> ELSE <<>>,
         cl |-> IF capture_count > 0 THEN <<c.len>> ELSE <<>>]

\* every result of pcre_exec / pcre2_match from offset start: in UTF mode an
\* invalid subject is refused, and a start inside a character is refused when
\* the engine checks it and undefined when it does not
pcre_exec_results(re, s, start, utf) ==
    IF utf /\ ~utf8Valid(s) THEN {PCRE_ERROR}
    ELSE IF utf /\ ~IsBoundary(s, start) THEN {PCRE_ERROR} \cup pcre_exec_any(s, start)
    ELSE {pcre_exec(re, s, start, FALSE, utf)}

regexpr_mode(c) ==
    LET pat == c.pat[1]
        n == Len(c.text)
        onlyASCII == /\ IS_ASCII(pat)
                     /\ \A k \in 1 .. n : c.text[k].na \/ IS_ASCII(c.text[k])
        haveBytes == IS_BYTES(pat) \/ AnyMarked(c.text, "bytes")
        useBytes == c.useBytes \/ onlyASCII \/ haveBytes
        utf8 == /\ ~useBytes
                /\ \/ (~c.fixed /\ mbcslocale)
                   \/ IS_UTF8(pat)
                   \/ AnyMarked(c.text, "utf8")
                   \/ (~latin1locale /\ (IS_LATIN1(pat) \/ AnyMarked(c.text, "latin1")))
        ere == ~c.fixed /\ ~c.perl
        utf8b == IF ere /\ ~useBytes /\ mbcslocale /\ ~utf8locale THEN TRUE ELSE utf8
    IN  [useBytes |-> useBytes,
         use_UTF8 |-> IF ere THEN FALSE ELSE utf8,
         use_WC   |-> IF ere THEN utf8b ELSE FALSE,
         perl     |-> c.perl]

\* the translated pattern, or the error of its validation
regexpr_spat(c, m) ==
    LET pat == c.pat[1]
    IN  IF m.useBytes THEN [err |-> "", spat |-> CHAR(pat)]
        ELSE IF m.use_WC THEN [err |-> "", spat |-> CHAR(pat)]
        ELSE IF m.use_UTF8
        THEN [err |-> IF ~utf8Valid(translateCharUTF8(pat))
                      THEN "regular expression is invalid UTF-8" ELSE "",
              spat |-> translateCharUTF8(pat)]
        ELSE [err |-> IF mbcslocale /\ ~mbcsValid(translateChar(pat))
                      THEN "regular expression is invalid in this locale" ELSE "",
              spat |-> translateChar(pat)]

\* a check that lets every pattern through
no_pattern_error(pat) == ""

\* the check of the pattern argument: a Missing pattern is an error
regexpr_pattern_error(pat) == IF pat.na THEN "invalid 'pattern' argument" ELSE ""

\* the state of the match loop of one element of gregexpr: the driver, the
\* subject, the offset reached (offset, curpos, start), the bytes the literal
\* driver has moved its string pointer, st, eflags, foundAny and the buffers
NoLoop == [drv |-> "none", s |-> <<>>, offset |-> 0, ptr |-> 0, st |-> 0,
           notbol |-> FALSE, foundAny |-> FALSE,
           mb |-> <<>>, mlb |-> <<>>, cb |-> <<>>, clb |-> <<>>]

\* an index.type that is "bytes" whatever was asked for
AlwaysBytes(useBytes) == "bytes"

\* itype, made from the useBytes argument before the mode is chosen
index_type(useBytes) == IF useBytes THEN "bytes" ELSE "chars"

\* argument checks, mode selection, translation, compilation and the
\* allocation of the result
do_regexpr_intake ==
    /\ pc = "intake" /\ call.op \in {"regexpr", "gregexpr"}
    /\ LET n == Len(call.text)
           m == regexpr_mode(call)
           ps == regexpr_spat(call, m)
       IN  IF regexpr_pattern_error(call.pat[1]) # ""
           THEN /\ pc' = "error" /\ err' = regexpr_pattern_error(call.pat[1])
                /\ UNCHANGED <<mode, ans, g, compiled, mt>>
           ELSE IF ps.err # ""
           THEN /\ pc' = "error" /\ err' = ps.err /\ mode' = m
                /\ UNCHANGED <<ans, g, compiled, mt>>
           ELSE LET re == IF call.fixed THEN NoRe ELSE regcomp(ps.spat, m.use_WC)
                    cc == IF call.perl THEN re.nsub ELSE 0
                IN  /\ mode' = m
                    /\ g' = [spat |-> ps.spat, re |-> re,
                             itype |-> index_type(call.useBytes),
                             capture_count |-> cc, lp |-> NoLoop]
                    /\ compiled' = IF call.fixed THEN "none" ELSE "live"
                    /\ ans' = IF call.op = "regexpr"
                              THEN [v |-> [k \in 1 .. n |-> UNSET_INT],
                                    matchlen |-> [k \in 1 .. n |-> UNSET_INT],
                                    cs |-> [k \in 1 .. n |->
                                               IF cc > 0 THEN <<NA_INTEGER>> ELSE <<>>],
                                    cl |-> [k \in 1 .. n |->
                                               IF cc > 0 THEN <<NA_INTEGER>> ELSE <<>>],
                                    useBytes |-> m.useBytes]
                              ELSE [k \in 1 .. n |-> UNSET]
                    /\ mt' = [k \in 1 .. n |-> <<>>]
                    /\ pc' = "loop"
                    /\ err' = err
    /\ i' = 0
    /\ UNCHANGED <<R_interrupts_pending, call, itok, ind, tried, nwarn, warns>>


\* utf8towcs(NULL, s, 0) and mbstowcs(NULL, s, 0): the number of characters
utf8towcs(s) == Len(Decode(s))
mbstowcs(s) == IF mbcsValid(s) THEN Len(Decode(s)) ELSE -1

\* the length of the literal pattern in the unit of the mode
fixed_patlen(spat, useBytes, use_UTF8) ==
    IF ~useBytes /\ use_UTF8 THEN utf8towcs(spat)
    ELSE IF ~useBytes /\ mbcslocale THEN mbstowcs(spat)
    ELSE Len(spat)

\* what one turn of a loop over the elements leaves: an error, or the position,
\* the length and the captures, whether the input was invalid (bad), whether
\* the Perl engine's error was warned of (pw), whether a match was attempted
Located(errmsg, pos, len, cs, cl, bad, pw, matched) ==
    [err |-> errmsg, pos |-> pos, len |-> len, cs |-> cs, cl |-> cl,
     bad |-> bad, pw |-> pw, tried |-> matched]

\* group slots of one element: capture_count entries of value v
Groups(capture_count, v) == IF capture_count > 0 THEN <<v>> ELSE <<>>

\* one non-Missing element of regexpr whose subject s is in hand
regexpr_subject(s, c, m, gg) ==
    IF c.fixed
    THEN LET st == fgrep_one(gg.spat, s, m.useBytes, m.use_UTF8).st
             pos == IF st > -1 THEN st + 1 ELSE -1
         IN  {Located("", pos,
                      IF pos >= 0 THEN fixed_patlen(gg.spat, m.useBytes, m.use_UTF8)
                      ELSE -1,
                      <<>>, <<>>, FALSE, FALSE, TRUE)}
    ELSE IF c.perl
    THEN {IF o[1].rc = 0
          THEN LET x == extract_match_and_groups(m.use_UTF8, o[1], gg.capture_count, s)
               IN  Located("", x.m, x.len, x.cs, x.cl, FALSE, o[2], TRUE)
          ELSE Located("", -1, -1, Groups(gg.capture_count, -1),
                       Groups(gg.capture_count, -1), FALSE, o[2], TRUE) :
          o \in UNION {{<<r, w>> : w \in R_pcre_exec_error(r)} :
                         r \in pcre_exec_results(gg.re, s, 0, m.use_UTF8)}}
    ELSE LET r == tre_regexec(gg.re, s, FALSE)
         IN  {IF r.rc = 0
              THEN Located("", r.so + 1, r.eo - r.so, <<>>, <<>>, FALSE, FALSE, TRUE)
              ELSE Located("", -1, -1, <<>>, <<>>, FALSE, FALSE, TRUE)}

\* every outcome of one turn of the loop of regexpr
regexpr_one(e, c, m, gg) ==
    LET na == Groups(gg.capture_count, NA_INTEGER)
    IN  IF e.na
        THEN {Located("", NA_INTEGER, NA_INTEGER, na, na, FALSE, FALSE, FALSE)}
        ELSE IF m.useBytes THEN regexpr_subject(CHAR(e), c, m, gg)
        ELSE IF m.use_WC
        THEN UNION {IF w.bad
                    THEN {Located("invalid input in wtransChar", -1, -1, na, na,
                                  FALSE, FALSE, FALSE)}
                    ELSE regexpr_subject(w.w, c, m, gg) : w \in wtransCharAny(e)}
        ELSE IF m.use_UTF8
        THEN IF ~utf8Valid(translateCharUTF8(e))
             THEN {Located("", -1, -1, na, na, TRUE, FALSE, FALSE)}
             ELSE regexpr_subject(translateCharUTF8(e), c, m, gg)
        ELSE IF mbcslocale /\ ~mbcsValid(translateChar(e))
        THEN {Located("", -1, -1, na, na, TRUE, FALSE, FALSE)}
        ELSE regexpr_subject(translateChar(e), c, m, gg)

\* one turn of the loop over the elements of regexpr
regexpr_elt ==
    /\ pc = "loop" /\ call.op = "regexpr" /\ i < Len(call.text)
    /\ \E o \in regexpr_one(call.text[i + 1], call, mode, g) :
          IF o.err # ""
          THEN /\ pc' = "error" /\ err' = o.err
               /\ UNCHANGED <<ans, tried, i, nwarn, warns>>
          ELSE /\ ans' = [ans EXCEPT !.v[i + 1] = o.pos, !.matchlen[i + 1] = o.len,
                                     !.cs[i + 1] = o.cs, !.cl[i + 1] = o.cl]
               /\ tried' = IF o.tried THEN tried \cup {i} ELSE tried
               /\ nwarn' = IF o.bad THEN nwarn + 1 ELSE nwarn
               /\ warns' = warns \o Warned(o, i, nwarn)
               /\ i' = i + 1
               /\ UNCHANGED <<pc, err>>
    /\ UNCHANGED <<R_interrupts_pending, call, mode, itok, ind, g, compiled, mt>>

\* the compiled pattern is freed and the result returned
do_regexpr_finish ==
    /\ pc = "loop" /\ call.op \in {"regexpr", "gregexpr"} /\ i >= Len(call.text)
    /\ compiled' = IF compiled = "live" THEN "freed" ELSE compiled
    /\ pc' = "done"
    /\ UNCHANGED <<R_interrupts_pending, call, mode, itok, i, ans, ind, g, tried, mt, nwarn, warns, err>>


(***************************************************************************)
(* gregexpr: one element is a loop of its own                              *)
(***************************************************************************)
\* the result of one element: positions, match.length, the captures of each
\* match, and whether index.type and useBytes are set
gregexpr_Ans(v, matchlen, cs, cl, useBytes) ==
    [v |-> v, matchlen |-> matchlen, cs |-> cs, cl |-> cl, useBytes |-> useBytes]

\* the element for a string that is invalid in the locale
gregexpr_BadStringAns == gregexpr_Ans(<<-1>>, <<-1>>, <<>>, <<>>, FALSE)

\* an element that reports no match where a Missing one is due
gregexpr_NoMatchAns == gregexpr_Ans(<<-1>>, <<-1>>, <<>>, <<>>, FALSE)

\* the element for a Missing string
gregexpr_NAInputAns ==
    gregexpr_Ans(<<NA_INTEGER>>, <<NA_INTEGER>>, <<>>, <<>>, FALSE)

\* the most matches the buffers of one element are let to hold
MaxMatches == MaxLen + 2

\* an empty match that steps nowhere
NoAdvance(st) == st

\* the step past an empty match that starts st units from the offset
EmptyAdvance(st) == st + 1

\* the buffers copied out when the loop of one element ends
gregexpr_copy(lp, capture_count, useBytes) ==
    IF lp.foundAny
    THEN gregexpr_Ans(lp.mb, lp.mlb, lp.cb, lp.clb, useBytes)
    ELSE gregexpr_Ans(<<-1>>, <<-1>>,
                      IF capture_count > 0 THEN <<<<-1>>>> ELSE <<>>,
                      IF capture_count > 0 THEN <<<<-1>>>> ELSE <<>>, useBytes)

\* the head of one turn of the loop over the elements of gregexpr: a Missing
\* or an invalid element is answered at once, and so is a literal pattern
\* that does not occur; otherwise the match loop of the element is entered
gregexpr_elt ==
    /\ pc = "loop" /\ call.op = "gregexpr" /\ i < Len(call.text)
    /\ LET e == call.text[i + 1]
           s == IF mode.useBytes THEN CHAR(e)
                ELSE IF mode.use_UTF8 THEN translateCharUTF8(e) ELSE translateChar(e)
           enter(lp) == /\ g' = [g EXCEPT !.lp = lp]
                        /\ pc' = "inner"
                        /\ tried' = tried \cup {i}
                        /\ mt' = [mt EXCEPT ![i + 1] = lp.s]
                        /\ UNCHANGED <<ans, i, nwarn, warns, err>>
           answer(elt, bad, matched) ==
                        /\ ans' = [ans EXCEPT ![i + 1] = elt]
                        /\ i' = i + 1
                        /\ nwarn' = IF bad THEN nwarn + 1 ELSE nwarn
                        /\ warns' = IF bad /\ nwarn < NWARN
                                    THEN Append(warns, <<i, "input string is invalid">>)
                                    ELSE warns
                        /\ tried' = IF matched THEN tried \cup {i} ELSE tried
                        /\ UNCHANGED <<g, pc, mt, err>>
       IN  IF e.na THEN answer(gregexpr_NAInputAns, FALSE, FALSE)
           ELSE IF call.fixed \/ call.perl
           THEN IF ~mode.useBytes /\ ~mode.use_UTF8 /\ mbcslocale /\ ~mbcsValid(s)
                THEN answer(gregexpr_BadStringAns, TRUE, FALSE)
                ELSE IF call.perl
                THEN enter([NoLoop EXCEPT !.drv = "pcre", !.s = s])
                ELSE LET f == fgrep_one(g.spat, s, mode.useBytes, mode.use_UTF8)
                         patlen == fixed_patlen(g.spat, mode.useBytes, mode.use_UTF8)
                     IN  IF f.st < 0
                         THEN answer(gregexpr_copy(NoLoop, 0, mode.useBytes), FALSE, TRUE)
                         ELSE enter([NoLoop EXCEPT !.drv = "fixed", !.s = s,
                                                   !.st = f.st, !.ptr = f.next,
                                                   !.foundAny = TRUE,
                                                   !.mb = <<f.st + 1>>,
                                                   !.mlb = <<patlen>>])
           ELSE IF mode.useBytes
           THEN enter([NoLoop EXCEPT !.drv = "regexc", !.s = CHAR(e)])
           ELSE IF ~mode.use_WC
           THEN enter([NoLoop EXCEPT !.drv = "regexc", !.s = translateChar(e)])
           ELSE \E w \in wtransCharAny(e) :
                   IF w.bad
                   THEN /\ pc' = "error" /\ err' = "invalid input in wtransChar"
                        /\ UNCHANGED <<ans, g, i, tried, mt, nwarn, warns>>
                   ELSE enter([NoLoop EXCEPT !.drv = "regexc", !.s = w.w])
    /\ UNCHANGED <<R_interrupts_pending, call, mode, itok, ind, compiled>>

\* the loop of one element is left: the buffers become element i of the result
gregexpr_leave(lp) ==
    /\ ans' = [ans EXCEPT ![i + 1] = gregexpr_copy(lp, g.capture_count, mode.useBytes)]
    /\ g' = [g EXCEPT !.lp = lp]
    /\ i' = i + 1
    /\ pc' = "loop"

\* one turn of the while loop of gregexpr_Regexc
gregexpr_Regexc ==
    /\ pc = "inner" /\ g.lp.drv = "regexc" /\ Len(g.lp.mb) <= MaxMatches
    /\ LET lp == g.lp
           len == Len(lp.s)
           r == IF lp.offset < len
                THEN tre_regexec(g.re, Suffix(lp.s, lp.offset), lp.notbol)
                ELSE REG_NOMATCH
       IN  /\ IF lp.offset < len /\ r.rc = 0
              THEN LET st == r.so
                       mlen == r.eo - st
                   IN  /\ g' = [g EXCEPT !.lp =
                                   [lp EXCEPT !.foundAny = TRUE,
                                              !.mb = Append(lp.mb, lp.offset + st + 1),
                                              !.mlb = Append(lp.mlb, mlen),
                                              !.offset = IF mlen = 0
                                                         THEN lp.offset + EmptyAdvance(st)
                                                         ELSE lp.offset + r.eo,
                                              !.notbol = TRUE]]
                       /\ UNCHANGED <<ans, i, pc>>
              ELSE gregexpr_leave([lp EXCEPT !.notbol = TRUE])
           \* rc is read though no match was run when the subject is empty
           /\ IF lp.offset >= len /\ ~lp.notbol
              THEN \E w \in BOOLEAN :
                      warns' = IF w THEN Append(warns, <<i, "Out-of-memory error">>)
                               ELSE warns
              ELSE warns' = warns
    /\ UNCHANGED <<R_interrupts_pending, call, mode, itok, ind, compiled, tried, mt, nwarn, err>>

\* one turn of the while loop of gregexpr_fixed
gregexpr_fixed ==
    /\ pc = "inner" /\ g.lp.drv = "fixed" /\ Len(g.lp.mb) <= MaxMatches
    /\ LET lp == g.lp
           patlen == fixed_patlen(g.spat, mode.useBytes, mode.use_UTF8)
           slen == Len(lp.s)
           curpos == lp.offset + (IF patlen = 0 THEN lp.st + 1 ELSE lp.st + patlen)
           f == fgrep_one(g.spat, Suffix(lp.s, lp.ptr), mode.useBytes, mode.use_UTF8)
       IN  IF curpos >= slen
           THEN gregexpr_leave([lp EXCEPT !.offset = curpos])
           ELSE IF f.st >= 0
           THEN /\ g' = [g EXCEPT !.lp =
                            [lp EXCEPT !.offset = curpos, !.st = f.st,
                                       !.ptr = lp.ptr + f.next,
                                       !.mb = Append(lp.mb, curpos + f.st + 1),
                                       !.mlb = Append(lp.mlb, patlen)]]
                /\ UNCHANGED <<ans, i, pc>>
           ELSE gregexpr_leave([lp EXCEPT !.offset = curpos, !.st = f.st])
    /\ UNCHANGED <<R_interrupts_pending, call, mode, itok, ind, compiled, tried, mt, nwarn, warns, err>>

\* one turn of the while loop of R_pcre_gregexpr / R_pcre2_gregexpr
R_pcre_gregexpr ==
    /\ pc = "inner" /\ g.lp.drv = "pcre" /\ Len(g.lp.mb) <= MaxMatches
    /\ LET lp == g.lp
           slen == Len(lp.s)
       IN  \E r \in pcre_exec_results(g.re, lp.s, lp.offset, mode.use_UTF8) :
           \E w \in R_pcre_exec_error(r) :
              /\ warns' = IF w THEN Append(warns, <<i, "PCRE error">>) ELSE warns
              /\ IF r.rc = 0
                 THEN LET x == extract_match_and_groups(mode.use_UTF8, r,
                                                        g.capture_count, lp.s)
                          start == IF r.eo - r.so = 0 THEN r.so + 1 ELSE r.eo
                          lp2 == [lp EXCEPT !.foundAny = TRUE,
                                            !.mb = Append(lp.mb, x.m),
                                            !.mlb = Append(lp.mlb, x.len),
                                            !.cb = Append(lp.cb, x.cs),
                                            !.clb = Append(lp.clb, x.cl),
                                            !.offset = start]
                      IN  IF start >= slen THEN gregexpr_leave(lp2)
                          ELSE /\ g' = [g EXCEPT !.lp = lp2]
                               /\ UNCHANGED <<ans, i, pc>>
                 ELSE gregexpr_leave(lp)
    /\ UNCHANGED <<R_interrupts_pending, call, mode, itok, ind, compiled, tried, mt, nwarn, err>>


(***************************************************************************)
(* regexec                                                                 *)
(***************************************************************************)
regexec_mode(c) ==
    LET pat == c.pat[1]
        n == Len(c.text)
        onlyASCII == /\ IS_ASCII(pat)
                     /\ \A k \in 1 .. n : c.text[k].na \/ IS_ASCII(c.text[k])
        haveBytes == IS_BYTES(pat) \/ AnyMarked(c.text, "bytes")
        useBytes == c.useBytes \/ onlyASCII \/ haveBytes
        use_WC == /\ ~useBytes
                  /\ \/ ~IS_ASCII(pat)
                     \/ \E k \in 1 .. n : ~c.text[k].na /\ ~IS_ASCII(c.text[k])
    IN  [useBytes |-> useBytes, use_UTF8 |-> FALSE, use_WC |-> use_WC, perl |-> FALSE]

\* tre_regcomp with REG_LITERAL: the pattern is its own text
regcomp_literal(spat, wide) ==
    [kind |-> "lit", w |-> IF wide THEN Decode(spat) ELSE spat, w2 |-> <<>>, nsub |-> 0]

\* argument checks, mode selection and compilation
do_regexec_intake ==
    /\ pc = "intake" /\ call.op = "regexec"
    /\ LET n == Len(call.text)
           m == regexec_mode(call)
           pat == call.pat[1]
       IN  IF pat.na
           THEN /\ pc' = "error" /\ err' = "invalid 'pattern' argument"
                /\ UNCHANGED <<mode, ans, g, compiled>>
           ELSE IF ~m.useBytes /\ ~m.use_WC /\ mbcslocale /\ ~mbcsValid(translateChar(pat))
           THEN /\ pc' = "error" /\ err' = "regular expression is invalid in this locale"
                /\ mode' = m
                /\ UNCHANGED <<ans, g, compiled>>
           ELSE LET re == IF call.fixed THEN regcomp_literal(CHAR(pat), m.use_WC)
                          ELSE regcomp(CHAR(pat), m.use_WC)
                IN  /\ mode' = m
                    /\ g' = [spat |-> CHAR(pat), re |-> re,
                             itype |-> index_type(call.useBytes),
                             capture_count |-> 0, lp |-> NoLoop]
                    /\ compiled' = "live"
                    /\ ans' = [k \in 1 .. n |-> UNSET]
                    /\ pc' = "loop"
                    /\ err' = err
    /\ i' = 0
    /\ UNCHANGED <<R_interrupts_pending, call, itok, ind, tried, mt, nwarn, warns>>

\* the positions and lengths of the match and of the groups, from pmatch
regexec_match(r, nmatch, useBytes) ==
    LET so == [j \in 1 .. nmatch |-> IF j = 1 THEN r.so ELSE r.gso]
        eo == [j \in 1 .. nmatch |-> IF j = 1 THEN r.eo ELSE r.geo]
    IN  gregexpr_Ans([j \in 1 .. nmatch |-> so[j] + 1],
                     [j \in 1 .. nmatch |-> eo[j] - so[j]], <<>>, <<>>, useBytes)

\* one non-Missing element of regexec whose subject s is in hand
regexec_subject(s, m, gg) ==
    LET r == tre_regexec(gg.re, s, FALSE)
    IN  IF r.rc = 0 THEN regexec_match(r, gg.re.nsub + 1, m.useBytes)
        ELSE gregexpr_Ans(<<-1>>, <<-1>>, <<>>, <<>>, m.useBytes)

\* every outcome of one turn of the loop of regexec
regexec_one(e, m, gg) ==
    IF e.na THEN {[err |-> "", elt |-> gregexpr_NAInputAns, tried |-> FALSE]}
    ELSE IF m.useBytes
    THEN {[err |-> "", elt |-> regexec_subject(CHAR(e), m, gg), tried |-> TRUE]}
    ELSE IF m.use_WC
    THEN {IF w.bad
          THEN [err |-> "invalid input in wtransChar", elt |-> gregexpr_NAInputAns,
                tried |-> FALSE]
          ELSE [err |-> "", elt |-> regexec_subject(w.w, m, gg), tried |-> TRUE] :
          w \in wtransCharAny(e)}
    ELSE IF mbcslocale /\ ~mbcsValid(translateChar(e))
    THEN {[err |-> "input string is invalid in this locale",
           elt |-> gregexpr_NAInputAns, tried |-> FALSE]}
    ELSE {[err |-> "", elt |-> regexec_subject(translateChar(e), m, gg), tried |-> TRUE]}

\* one turn of the loop over the elements of regexec
regexec_elt ==
    /\ pc = "loop" /\ call.op = "regexec" /\ i < Len(call.text)
    /\ \E o \in regexec_one(call.text[i + 1], mode, g) :
          IF o.err # ""
          THEN /\ pc' = "error" /\ err' = o.err
               /\ UNCHANGED <<ans, tried, i>>
          ELSE /\ ans' = [ans EXCEPT ![i + 1] = o.elt]
               /\ tried' = IF o.tried THEN tried \cup {i} ELSE tried
               /\ i' = i + 1
               /\ UNCHANGED <<pc, err>>
    /\ UNCHANGED <<R_interrupts_pending, call, mode, itok, ind, g, compiled, mt, nwarn, warns>>

\* pmatch and the compiled pattern are freed and the list returned
regexec_finish ==
    /\ pc = "loop" /\ call.op = "regexec" /\ i >= Len(call.text)
    /\ compiled' = "freed"
    /\ pc' = "done"
    /\ UNCHANGED <<R_interrupts_pending, call, mode, itok, i, ans, ind, g, tried, mt, nwarn, warns, err>>

\* a call of regexpr or gregexpr
IsRegexprCall(c, ops) ==
    \E op \in ops, fixed \in BOOLEAN, perl \in BOOLEAN, ub \in BOOLEAN :
        /\ fixed => ~perl
        /\ \E p \in (IF fixed THEN FixedPats ELSE RegexPats), x \in TextVectors :
              c = mkCall(op, <<p>>, NoRep, x, fixed, perl, ub, FALSE, FALSE)

\* a call of regexec; its literal patterns are valid strings
IsRegexecCall(c) ==
    \E fixed \in BOOLEAN, ub \in BOOLEAN :
        \E p \in (IF fixed THEN FixedPats \ {mkElt(<<195>>, "native")} ELSE RegexPats),
           x \in TextVectors :
              c = mkCall("regexec", <<p>>, NoRep, x, fixed, FALSE, ub, FALSE, FALSE)

InitLoc ==
    /\ IsRegexprCall(call, {"regexpr", "gregexpr"}) \/ IsRegexecCall(call)
    /\ InitRest

NextGreg ==
    \/ do_regexpr_intake
    \/ gregexpr_elt
    \/ gregexpr_Regexc
    \/ gregexpr_fixed
    \/ R_pcre_gregexpr
    \/ do_regexpr_finish

NextLoc ==
    \/ NextGreg
    \/ regexpr_elt
    \/ do_regexec_intake
    \/ regexec_elt
    \/ regexec_finish

SpecLoc == InitLoc /\ [][NextLoc]_vars

InitGreg == IsRegexprCall(call, {"gregexpr"}) /\ InitRest

SpecGreg == InitGreg /\ [][NextGreg]_vars

\* the loops are scheduled as long as they can take a step
SpecGregFair == SpecGreg /\ WF_vars(NextGreg)


(***************************************************************************)
(* Properties of regexpr, gregexpr and regexec                             *)
(***************************************************************************)
\* a string in the unit the literal matcher counts in: bytes in Bytes mode,
\* characters otherwise
FixedUnits(s) == IF mode.useBytes THEN s ELSE Decode(s)

\* the 0-based offsets at which p occurs in u
OccurrencesIn(u, p) ==
    {q \in 0 .. (Len(u) - Len(p)) : SubSeq(u, q + 1, q + Len(p)) = p}

\* element k of a finished regexpr call with a literal pattern: the element
\* is not Missing and is a valid string of the mode
FixedRegexprCase(k) ==
    /\ pc = "done" /\ call.op = "regexpr" /\ call.fixed
    /\ ~call.text[k].na
    /\ mode.useBytes \/ utf8Valid(call.text[k].s)

\* C4: regexpr with a literal pattern reports the 1-based index of the
\* leftmost occurrence of the pattern in the element, in bytes in Bytes mode
\* and in characters otherwise, with match.length the pattern length in the
\* same unit, so the substring at the position with that length is the
\* pattern; position and length are both -1 iff the pattern does not occur.
C4_FixedPosition ==
    \A k \in 1 .. Len(call.text) :
        FixedRegexprCase(k) =>
            LET u == FixedUnits(call.text[k].s)
                p == FixedUnits(g.spat)
                occ == OccurrencesIn(u, p)
                pos == ans.v[k]
                len == ans.matchlen[k]
            IN  /\ (pos = -1) <=> (occ = {})
                /\ (len = -1) <=> (occ = {})
                /\ occ # {} =>
                      /\ pos - 1 \in occ
                      /\ \A q \in occ : pos - 1 <= q
                      /\ len = Len(p)
                      /\ SubSeq(u, pos, pos + len - 1) = p

\* a literal pattern found behind a two-byte character: the position in
\* characters differs from the byte offset
C4_Witness ==
    \E k \in 1 .. Len(call.text) :
        /\ FixedRegexprCase(k)
        /\ ~mode.useBytes
        /\ ans.v[k] >= 2
        /\ Len(g.spat) > 0
        /\ ans.v[k] - 1 \notin OccurrencesIn(call.text[k].s, g.spat)


\* a reported position with its length: 1-based, or the sentinel -1 with
\* length -1, or Missing for a Missing element; under the rule "unset" a
\* group that took no part in the match may also be reported as 0 with length 0
PositionOK(pos, len, na, group, rule) ==
    \/ pos >= 1 /\ pos # UNSET_INT /\ len >= 0
    \/ pos = -1 /\ len = -1
    \/ pos = NA_INTEGER /\ len = NA_INTEGER /\ na
    \/ rule = "unset" /\ group /\ pos = 0 /\ len = 0

\* the positions of one list element are well formed
EltOK(e, na, rule) ==
    /\ Len(e.v) >= 1
    /\ Len(e.matchlen) = Len(e.v)
    /\ \A j \in 1 .. Len(e.v) : PositionOK(e.v[j], e.matchlen[j], na, j >= 2, rule)

\* element k of a gregexpr call is a valid string in which the compiled
\* pattern, or the literal pattern, occurs nowhere
NoMatchIn(k) ==
    LET e == call.text[k]
    IN  /\ ~e.na
        /\ mode.useBytes \/ utf8Valid(e.s)
        /\ IF call.fixed THEN OccurrencesIn(e.s, g.spat) = {}
           ELSE LET u == IF mode.use_WC THEN Decode(e.s) ELSE e.s
                IN  RegSearch(g.re, u, 0, TRUE, 0 .. Len(u)).rc # 0

\* the result of a finished regexpr, gregexpr or regexec call is well formed
LocatedOK(rule) ==
    LET n == Len(call.text)
    IN  /\ (pc = "done" /\ call.op = "regexpr") =>
              /\ Len(ans.v) = n /\ Len(ans.matchlen) = n
              /\ \A k \in 1 .. n :
                    PositionOK(ans.v[k], ans.matchlen[k], call.text[k].na, FALSE, rule)
        /\ (pc = "done" /\ call.op = "gregexpr") =>
              /\ Len(ans) = n
              /\ \A k \in 1 .. n :
                    /\ EltOK(ans[k], call.text[k].na, "none")
                    /\ NoMatchIn(k) => ans[k].v = <<-1>> /\ ans[k].matchlen = <<-1>>
        /\ (pc = "done" /\ call.op = "regexec") =>
              /\ Len(ans) = n
              /\ \A k \in 1 .. n : EltOK(ans[k], call.text[k].na, rule)

\* C5: in the results of regexpr, gregexpr and regexec every reported
\* position is >= 1, or -1 with match.length -1, or Missing for a Missing
\* element, and never 0; match.length has the length of the position vector;
\* gregexpr returns a list of length n whose elements have at least one entry
\* and are exactly [-1] when the element has no match.
C5_AsStated == LocatedOK("none")

\* what holds of the code: the same, except that regexec reports position 0
\* and length 0 for a group that took no part in the match
C5_ExceptUnsetGroups == LocatedOK("unset")

\* regexec has matched an element by the alternative without the group
C5_Witness ==
    /\ pc = "done" /\ call.op = "regexec"
    /\ \E k \in 1 .. Len(call.text) :
          /\ Len(ans[k].v) = 2
          /\ ans[k].v[1] >= 1
          /\ ans[k].v[2] = 0


\* a gregexpr call with a Missing pattern that has left its intake
MissingPatternCase == call.op = "gregexpr" /\ call.pat[1].na /\ pc # "intake"

\* C9 (as amended): when the pattern is Missing, gregexpr fails with the
\* error "invalid 'pattern' argument": no list is returned, nothing is
\* compiled and no element is matched.
C9_MissingPatternFails ==
    MissingPatternCase =>
        /\ pc = "error" /\ err = "invalid 'pattern' argument"
        /\ ans = <<>>
        /\ compiled = "none"
        /\ tried = {}

\* gregexpr was called with a Missing pattern on a vector with an element
C9_Witness == MissingPatternCase /\ Len(call.text) >= 1 /\ pc = "error"

\* C9 as stated: when the pattern is Missing, gregexpr does not fail and
\* returns a list of length n whose every element is a single Missing value
C9_AsStated ==
    MissingPatternCase =>
        /\ pc # "error"
        /\ pc = "done" => ans = [k \in 1 .. Len(call.text) |-> gregexpr_NAInputAns]

\* a gregexpr call past its intake whose pattern matches the empty string at
\* position 0
EmptyMatchCase ==
    /\ call.op = "gregexpr" /\ pc \in {"loop", "inner", "done"}
    /\ IF call.fixed THEN g.spat = <<>> ELSE MatchAt(g.re, <<>>, 0, TRUE) = 0

\* how many times the warning w was given for element k (0-based)
WarnedTimes(k, w) == Cardinality({j \in 1 .. Len(warns) : warns[j] = <<k, w>>})

\* the texts of the warnings of the match loops
LoopWarnings == {"pattern matches an empty string infinitely", "PCRE error",
                 "Out-of-memory error", "input string is invalid"}

\* the element can be decoded in the mode of the call
ValidInMode(e) == e.na \/ mode.useBytes \/ utf8Valid(e.s)

\* the matches of every element, finished or in its loop, number at most the
\* length of the subject handed to the loop plus one; that subject is no
\* longer than the element in bytes when the element is valid in the mode;
\* and no warning is repeated for an element
EmptyMatchBounded ==
    EmptyMatchCase =>
        /\ pc = "inner" => Len(g.lp.mb) <= Len(mt[i + 1]) + 1
        /\ \A k \in 1 .. i :
              /\ Len(ans[k].v) <= Len(mt[k]) + 1
              /\ ValidInMode(call.text[k]) => Len(mt[k]) <= ELen(call.text[k])
        /\ \A k \in 0 .. (Len(call.text) - 1) : \A w \in LoopWarnings :
              WarnedTimes(k, w) <= 1

\* C10: for a pattern that matches the empty string at position 0 and any
\* subject x, the match loop of gregexpr (literal, extended and Perl drivers)
\* terminates with at most len(x)+1 matches for the element, x the subject
\* the loop is handed, and the infinite-match warning is given at most once
\* per element.
C10_EmptyMatchTerminates ==
    /\ [] EmptyMatchBounded
    /\ (EmptyMatchCase /\ pc = "inner") ~> (pc # "inner")

\* the loop of an element has ended with two matches or more, one of them empty
C10_Witness ==
    /\ EmptyMatchCase /\ pc = "done"
    /\ \E k \in 1 .. Len(call.text) :
          /\ Len(ans[k].v) >= 2
          /\ \E j \in 1 .. Len(ans[k].v) : ans[k].matchlen[j] = 0


(***************************************************************************)
(* grep and grepl                                                          *)
(***************************************************************************)
grep_mode(c) ==
    LET pat == c.pat[1]
        n == Len(c.text)
        onlyASCII == /\ IS_ASCII(pat)
                     /\ \A k \in 1 .. n : c.text[k].na \/ IS_ASCII(c.text[k])
        haveBytes == IS_BYTES(pat) \/ AnyMarked(c.text, "bytes")
        useBytes == c.useBytes \/ onlyASCII \/ haveBytes
        utf8 == /\ ~useBytes
                /\ \/ (c.perl /\ mbcslocale)
                   \/ IS_UTF8(pat)
                   \/ AnyMarked(c.text, "utf8")
                   \/ (~latin1locale /\ (IS_LATIN1(pat) \/ AnyMarked(c.text, "latin1")))
        ere == ~c.fixed /\ ~c.perl
        utf8b == IF ere /\ ~useBytes /\ mbcslocale /\ ~utf8locale THEN TRUE ELSE utf8
    IN  [useBytes |-> useBytes,
         use_UTF8 |-> IF ere THEN FALSE ELSE utf8,
         use_WC   |-> IF ere THEN utf8b ELSE FALSE,
         perl     |-> c.perl]

\* R's NA_logical_ has the bits of NA_integer_
NA_LOGICAL == NA_INTEGER

\* a result vector: its type and its values
Vector(type, v) == [type |-> type, v |-> v]

\* a vector of n values x
AllOf(n, x) == [k \in 1 .. n |-> x]

\* the answer to a Missing pattern
grep_NA_answer(c) ==
    LET n == Len(c.text)
    IN  IF c.value THEN Vector("character", AllNAStrings(n))
        ELSE IF c.op = "grepl" THEN Vector("logical", AllOf(n, NA_LOGICAL))
        ELSE Vector("integer", AllOf(n, NA_INTEGER))

\* argument checks, mode selection, translation and compilation
do_grep_intake ==
    /\ pc = "intake" /\ call.op \in {"grep", "grepl"}
    /\ LET n == Len(call.text)
           m == grep_mode(call)
           ps == regexpr_spat(call, m)
       IN  IF call.pat[1].na
           THEN /\ ans' = grep_NA_answer(call)
                /\ pc' = "done"
                /\ UNCHANGED <<mode, ind, g, compiled, err>>
           ELSE IF ps.err # ""
           THEN /\ pc' = "error" /\ err' = ps.err /\ mode' = m
                /\ UNCHANGED <<ans, ind, g, compiled>>
           ELSE /\ mode' = m
                /\ g' = [spat |-> ps.spat,
                         re |-> IF call.fixed THEN NoRe ELSE regcomp(ps.spat, m.use_WC),
                         itype |-> "", capture_count |-> 0, lp |-> NoLoop]
                /\ compiled' = IF call.fixed THEN "none" ELSE "live"
                /\ ind' = AllOf(n, UNSET_INT)
                /\ pc' = "loop"
                /\ UNCHANGED <<ans, err>>
    /\ i' = 0
    /\ UNCHANGED <<R_interrupts_pending, call, itok, tried, mt, nwarn, warns>>

\* what one turn of the loop of grep leaves in ind[i]
Tested(errmsg, hit, bad, pw, matched) ==
    [err |-> errmsg, hit |-> hit, bad |-> bad, pw |-> pw, tried |-> matched]

\* one non-Missing element of grep whose subject s is in hand
grep_subject(s, c, m, gg) ==
    IF c.fixed
    THEN {Tested("", IF fgrep_one(gg.spat, s, m.useBytes, m.use_UTF8).st >= 0 THEN 1 ELSE 0,
                 FALSE, FALSE, TRUE)}
    ELSE IF c.perl
    THEN UNION {IF r.rc = 0 THEN {Tested("", 1, FALSE, FALSE, TRUE)}
                ELSE {Tested("", 0, FALSE, w, TRUE) : w \in R_pcre_exec_error(r)} :
                r \in pcre_exec_results(gg.re, s, 0, m.use_UTF8)}
    ELSE {Tested("", IF tre_regexec(gg.re, s, FALSE).rc = 0 THEN 1 ELSE 0,
                 FALSE, FALSE, TRUE)}

\* every outcome of one turn of the loop of grep: ind[i] is 0 unless a match
\* is run and succeeds
grep_one(e, c, m, gg) ==
    IF e.na THEN {Tested("", 0, FALSE, FALSE, FALSE)}
    ELSE IF m.useBytes THEN grep_subject(CHAR(e), c, m, gg)
    ELSE IF m.use_WC
    THEN UNION {IF w.bad THEN {Tested("invalid input in wtransChar", 0, FALSE, FALSE, FALSE)}
                ELSE grep_subject(w.w, c, m, gg) : w \in wtransCharAny(e)}
    ELSE IF m.use_UTF8
    THEN IF ~utf8Valid(translateCharUTF8(e)) THEN {Tested("", 0, TRUE, FALSE, FALSE)}
         ELSE grep_subject(translateCharUTF8(e), c, m, gg)
    ELSE IF mbcslocale /\ ~mbcsValid(translateChar(e))
    THEN {Tested("", 0, TRUE, FALSE, FALSE)}
    ELSE grep_subject(translateChar(e), c, m, gg)

\* one turn of the loop over the elements
grep_elt ==
    /\ pc = "loop" /\ call.op \in {"grep", "grepl"} /\ i < Len(call.text)
    /\ \E o \in grep_one(call.text[i + 1], call, mode, g) :
          IF o.err # ""
          THEN /\ pc' = "error" /\ err' = o.err
               /\ UNCHANGED <<ind, tried, i, nwarn, warns>>
          ELSE /\ ind' = [ind EXCEPT ![i + 1] = o.hit]
               /\ tried' = IF o.tried THEN tried \cup {i} ELSE tried
               /\ nwarn' = IF o.bad THEN nwarn + 1 ELSE nwarn
               /\ warns' = warns \o Warned(o, i, nwarn)
               /\ i' = i + 1
               /\ UNCHANGED <<pc, err>>
    /\ UNCHANGED <<R_interrupts_pending, call, mode, itok, ans, g, compiled, mt>>

\* a selection that looks at the match alone
grep_selects_hit(invert, hit) == hit = 1

\* invert ^ LOGICAL(ind)[i]
grep_selects(invert, hit) == invert # (hit = 1)

\* the 1-based indices of ind, from k on, that the call selects
RECURSIVE grep_selected(_, _, _)
grep_selected(invert, v, k) ==
    IF k > Len(v) THEN <<>>
    ELSE (IF grep_selects(invert, v[k]) THEN <<k>> ELSE <<>>)
         \o grep_selected(invert, v, k + 1)

\* the compiled pattern is freed and the result assembled
grep_finish ==
    /\ pc = "loop" /\ call.op \in {"grep", "grepl"} /\ i >= Len(call.text)
    /\ compiled' = IF compiled = "live" THEN "freed" ELSE compiled
    /\ LET sel == grep_selected(call.invert, ind, 1)
       IN  ans' = IF call.op = "grepl" THEN Vector("logical", ind)
                  ELSE IF call.value
                  THEN Vector("character", [j \in 1 .. Len(sel) |-> call.text[sel[j]]])
                  ELSE Vector("integer", sel)
    /\ pc' = "done"
    /\ UNCHANGED <<R_interrupts_pending, call, mode, itok, i, ind, g, tried, mt, nwarn, warns, err>>

\* a call of grep or grepl; grepl takes neither value nor invert
IsGrepCall(c) ==
    \E op \in {"grep", "grepl"}, fixed \in BOOLEAN, perl \in BOOLEAN, ub \in BOOLEAN,
       value \in BOOLEAN, invert \in BOOLEAN :
        /\ fixed => ~perl
        /\ op = "grepl" => ~value /\ ~invert
        /\ \E p \in (IF fixed THEN FixedPats ELSE RegexPats), x \in TextVectors :
              c = mkCall(op, <<p>>, NoRep, x, fixed, perl, ub, value, invert)

InitGrep == IsGrepCall(call) /\ InitRest

NextGrep == do_grep_intake \/ grep_elt \/ grep_finish

SpecGrep == InitGrep /\ [][NextGrep]_vars


(***************************************************************************)
(* Properties of grep and grepl                                            *)
(***************************************************************************)
\* element k of a finished grep or grepl call with a pattern is Missing
MissingTextCase(k) ==
    /\ pc = "done" /\ call.op \in {"grep", "grepl"}
    /\ ~call.pat[1].na
    /\ call.text[k].na

\* grep reports element k: its index, or the element itself, is in the result
Reported(k) ==
    \E j \in 1 .. Len(ans.v) : ans.v[j] = (IF call.value THEN call.text[k] ELSE k)

HasMissing(c) ==
    c.pat[1].na \/ \E k \in 1 .. Len(c.text) : c.text[k].na

Init ==
    /\ \/ call \in SplitCalls
       \/ IsSubCall(call)
       \/ IsGrepCall(call)
       \/ IsRegexprCall(call, {"regexpr", "gregexpr"})
       \/ IsRegexecCall(call)
    /\ HasMissing(call)
    /\ InitRest

Next == NextSplit \/ NextSub \/ NextGrep \/ NextLoc

Spec == Init /\ [][Next]_vars

\* C8: when the pattern is Missing, sub and gsub return n Missing strings,
\* and grep and grepl return n Missing values (Missing strings for
\* value=TRUE, Missing integers for index output, Missing booleans for
\* grepl), n the length of the text vector; no pattern is compiled and no
\* element is matched.
C8_MissingPattern ==
    (call.pat[1].na /\ pc # "intake" /\ call.op \in {"sub", "gsub", "grep", "grepl"}) =>
        LET n == Len(call.text)
        IN  /\ pc = "done"
            /\ compiled = "none"
            /\ tried = {}
            /\ call.op \in {"sub", "gsub"} =>
                  Len(ans) = n /\ \A k \in 1 .. n : ans[k] = NA_STRING
            /\ call.op \in {"grep", "grepl"} =>
                  /\ Len(ans.v) = n
                  /\ ans.type = IF call.value THEN "character"
                                ELSE IF call.op = "grepl" THEN "logical" ELSE "integer"
                  /\ \A k \in 1 .. n :
                        ans.v[k] = IF call.value THEN NA_STRING
                                   ELSE IF call.op = "grepl" THEN NA_LOGICAL
                                   ELSE NA_INTEGER

\* a call with a Missing pattern has returned for a vector of two elements,
\* one of them not Missing
C8_Witness ==
    /\ call.pat[1].na /\ pc = "done"
    /\ call.op \in {"sub", "gsub", "grep", "grepl"}
    /\ Len(call.text) = 2
    /\ \E k \in 1 .. 2 : ~call.text[k].na

\* the operation's Missing result at index k of a finished call
MissingResult(k) ==
    CASE call.op \in {"sub", "gsub"} -> ans[k] = NA_STRING
      [] call.op = "regexpr" ->
             ans.v[k] = NA_INTEGER /\ ans.matchlen[k] = NA_INTEGER
      [] call.op \in {"gregexpr", "regexec"} ->
             ans[k].v = <<NA_INTEGER>> /\ ans[k].matchlen = <<NA_INTEGER>>
      [] call.op = "strsplit" -> ans[k] = <<NA_STRING>>
      [] OTHER -> TRUE

\* the operations that pass a Missing element on
Propagating == {"sub", "gsub", "regexpr", "gregexpr", "regexec", "strsplit"}

\* C6: for sub, gsub, regexpr, gregexpr, regexec and split, a Missing text
\* element at index i gives the operation's Missing result at index i
\* (Missing string; Missing position and match.length; a single-Missing
\* vector for list results) whatever the pattern, dialect and mode, and no
\* match is attempted on that element.
C6_MissingPropagates ==
    call.op \in Propagating =>
        \A k \in 1 .. Len(call.text) :
            call.text[k].na =>
                /\ (k - 1) \notin tried
                /\ pc = "done" => MissingResult(k)

\* a call with a pattern has returned for a vector with a Missing element and
\* an element that was matched
C6_Witness ==
    /\ call.op \in Propagating /\ pc = "done"
    /\ ~call.pat[1].na
    /\ tried # {}
    /\ \E k \in 1 .. Len(call.text) : call.text[k].na

(***************************************************************************)
(* Every operation, on the calls with an invalid text element              *)
(***************************************************************************)
\* the call has a text element that is not valid UTF-8
HasInvalid(c) ==
    \E k \in 1 .. Len(c.text) : ~c.text[k].na /\ ~utf8Valid(c.text[k].s)

InitBad ==
    /\ \/ call \in SplitCalls
       \/ IsSubCall(call)
       \/ IsGrepCall(call)
       \/ IsRegexprCall(call, {"regexpr", "gregexpr"})
       \/ IsRegexecCall(call)
    /\ HasInvalid(call)
    /\ InitRest

SpecBad == InitBad /\ [][Next]_vars

\* the element is validated in the mode m (Utf8 mode or locale mode) and fails
InvalidInMode(e, m) ==
    ~e.na /\ ~m.useBytes /\ ~m.use_WC /\ ~utf8Valid(e.s)

\* the errors raised for an invalid text element
InputErrors == {"input string is invalid", "input string is invalid in this locale",
                "invalid input in wtransChar"}

\* the loop over the elements has run, or is running, in the mode chosen
LoopEntered == ~call.pat[1].na /\ pc \in {"tok", "loop", "inner", "done", "error"}

\* element k (1-based) has its result
Answered(k) ==
    IF call.op = "strsplit" THEN pc = "done" ELSE pc = "done" \/ i >= k

\* the operation's result for an element it found invalid: Missing for
\* split, no match for the others
BadInputResult(k) ==
    CASE call.op = "strsplit" -> ans[k] = <<NA_STRING>>
      [] call.op \in {"grep", "grepl"} -> ind[k] = 0
      [] call.op = "regexpr" -> ans.v[k] = -1 /\ ans.matchlen[k] = -1
      [] call.op = "gregexpr" -> ans[k].v = <<-1>> /\ ans[k].matchlen = <<-1>>
      [] OTHER -> FALSE

\* the operations whose loop answers an invalid element and goes on
Continuing == {"strsplit", "grep", "grepl", "regexpr", "gregexpr"}

\* every element that is neither Missing nor invalid in the mode was matched
OthersMatched ==
    \A j \in 1 .. Len(call.text) :
        (~call.text[j].na /\ ~InvalidInMode(call.text[j], mode)) => (j - 1) \in tried

\* gregexpr in Utf8 mode runs no validation of its elements
Unvalidated == call.op = "gregexpr" /\ mode.use_UTF8

MaxElts == 7

\* their elements: an invalid string, an invalid string marked as UTF-8, "a"
WarnElts == {mkElt(<<195>>, "native"), mkElt(<<97, 195>>, "utf8"), Str(<<97>>)}

WarnVectors == UNION {[1 .. n -> WarnElts] : n \in 0 .. MaxElts}

\* their split argument: "a", "", ("a", ""), (NA, "a"), ("a", "", NA)
WarnTokens == {<<Str(<<97>>)>>, <<Str(<<>>)>>, <<Str(<<97>>), Str(<<>>)>>,
               <<NA_STRING, Str(<<97>>)>>, <<Str(<<97>>), Str(<<>>), NA_STRING>>}

\* a call of split, grep, grepl, regexpr or gregexpr on such a vector with
\* the pattern "a"
IsWarnCall(c) ==
    \E x \in WarnVectors :
        \/ \E t \in WarnTokens :
              c = mkCall("strsplit", t, NoRep, x, TRUE, FALSE, FALSE, FALSE, FALSE)
        \/ \E op \in {"grep", "grepl", "regexpr", "gregexpr"},
              fixed \in BOOLEAN, perl \in BOOLEAN :
              /\ fixed => ~perl
              /\ (~fixed /\ ~perl) => op = "gregexpr"
              /\ c = mkCall(op, <<Str(<<97>>)>>, NoRep, x, fixed, perl, FALSE, FALSE, FALSE)

InitWarn == IsWarnCall(call) /\ InitRest

NextWarn == NextSplit \/ NextGrep \/ NextGreg \/ regexpr_elt

SpecWarn == InitWarn /\ [][NextWarn]_vars

\* the invalid-input warnings given so far in the call
InvalidWarnings ==
    Cardinality({j \in 1 .. Len(warns) : warns[j][2] = "input string is invalid"})

\* element k of a finished call is invalid in the mode and, in split, is
\* paired with a pattern element that is not Missing
InvalidCase(k) ==
    /\ pc = "done" /\ call.op \in Continuing
    /\ InvalidInMode(call.text[k], mode)
    /\ call.op = "strsplit" => ~TokenOf(k).na

\* the elements of a finished call that are invalid in the mode
InvalidElts == {k \in 1 .. Len(call.text) : InvalidCase(k)}

\* C12: within one call of split, grep, grepl, regexpr or gregexpr at most 5
\* invalid-input warnings are given however many text elements are invalid
\* (in split the count runs across the pattern elements), and every invalid
\* element, the sixth and later ones included, has its bad-input result.
C12_AsStated ==
    /\ InvalidWarnings <= NWARN
    /\ \A k \in 1 .. Len(call.text) : InvalidCase(k) => BadInputResult(k)

\* what holds of the code: the same wherever the elements are validated, that
\* is everywhere but in gregexpr in Utf8 mode, which gives no such warning
C12_ExceptUnvalidated ==
    /\ InvalidWarnings <= NWARN
    /\ InvalidWarnings = IF Unvalidated THEN 0 ELSE Min(nwarn, NWARN)
    /\ ~Unvalidated =>
          /\ pc = "done" => nwarn = Cardinality(InvalidElts)
          /\ \A k \in 1 .. Len(call.text) : InvalidCase(k) => BadInputResult(k)

\* a call has returned for six invalid elements or more
C12_Witness ==
    /\ pc = "done" /\ call.op \in Continuing
    /\ Cardinality(InvalidElts) >= NWARN + 1
    /\ nwarn >= NWARN + 1
    /\ InvalidWarnings = NWARN


(***************************************************************************)
(* Properties of strsplit, every dialect                                   *)
(***************************************************************************)
\* element k of a finished split is the empty string and its token is
\* neither Missing nor empty
EmptySubjectCase(k) ==
    /\ pc = "done" /\ call.op = "strsplit"
    /\ ~TokenOf(k).na /\ Len(TokenOf(k).s) > 0
    /\ ~call.text[k].na /\ call.text[k].s = <<>>

\* C13 (as amended): splitting the empty subject "" (not Missing) by a
\* non-empty pattern yields a result element with no token at all, in the
\* literal, the extended and the Perl dialect.
C13_EmptySubjectNoToken ==
    \A k \in 1 .. Len(call.text) : EmptySubjectCase(k) => ans[k] = <<>>

\* an empty subject has been split in a regex dialect, next to an element
\* that gave a token
C13_Witness ==
    /\ ~call.fixed /\ Len(call.text) = 2
    /\ EmptySubjectCase(1)
    /\ Len(ans[2]) >= 1 /\ ~call.text[2].na

\* C13 as stated: splitting "" by a non-empty pattern yields exactly one
\* token, the empty string
C13_AsStated ==
    \A k \in 1 .. Len(call.text) :
        EmptySubjectCase(k) => Len(ans[k]) = 1 /\ ans[k][1].s = <<>> /\ ~ans[k][1].na


\* the tokens joined end to end
RECURSIVE Concat(_)
Concat(toks) == IF toks = <<>> THEN <<>> ELSE Head(toks) \o Concat(Tail(toks))

\* the characters of s in the mode of the call, each as its bytes: the bytes
\* in Bytes mode, the code points otherwise
CharsOf(s) ==
    IF mode.useBytes THEN [j \in 1 .. Len(s) |-> <<s[j]>>]
    ELSE [j \in 1 .. Len(Decode(s)) |-> EncodeChar(Decode(s)[j])]

\* element k of a finished split is paired with an empty pattern element and
\* is a valid string of the mode
EmptyPatternCase(k) ==
    /\ pc = "done" /\ call.op = "strsplit"
    /\ ~TokenOf(k).na /\ Len(TokenOf(k).s) = 0
    /\ ~call.text[k].na
    /\ mode.useBytes \/ utf8Valid(call.text[k].s)

\* C14: split with an empty pattern element and a valid non-Missing subject
\* gives exactly one token per character of the subject (per byte in Bytes
\* mode, per code point otherwise), in subject order, and the tokens joined
\* are the subject.
C14_EmptyPatternChars ==
    \A k \in 1 .. Len(call.text) :
        EmptyPatternCase(k) =>
            LET s == call.text[k].s
                toks == Bytes(ans[k])
            IN  /\ Len(toks) = Len(CharsOf(s))
                /\ \A j \in 1 .. Len(toks) : toks[j] = CharsOf(s)[j]
                /\ Concat(toks) = s
                /\ \A j \in 1 .. Len(toks) : ~ans[k][j].na

\* a subject with a two-byte character has been split into its characters
C14_Witness ==
    \E k \in 1 .. Len(call.text) :
        /\ EmptyPatternCase(k)
        /\ ~mode.useBytes
        /\ Len(ans[k]) >= 2
        /\ Len(ans[k]) < Len(call.text[k].s)


\* split alone on the long vectors
InitSplitLong == IsWarnCall(call) /\ call.op = "strsplit" /\ InitRest

SpecSplitLong == InitSplitLong /\ [][NextSplit]_vars

\* a step of split gives a result to the elements that had none, each under
\* the pattern element its index is paired with, and a Missing pattern
\* element passes the text element on
PairedStep ==
    call.op = "strsplit" =>
        \A k \in 1 .. Len(call.text) :
            (pc # "intake" /\ ans'[k] # ans[k]) =>
                /\ ans[k] = <<UNSET>>
                /\ itok = (k - 1) % Len(call.pat)
                /\ call.pat[itok + 1] = TokenOf(k)
                /\ TokenOf(k).na => ans'[k] = <<call.text[k]>>

\* a split that has returned has a result for every element, and the element
\* itself where the paired pattern element is Missing
AllAnswered ==
    (pc = "done" /\ call.op = "strsplit") =>
        /\ Len(ans) = Len(call.text)
        /\ \A k \in 1 .. Len(call.text) :
              /\ ans[k] # <<UNSET>>
              /\ TokenOf(k).na => ans[k] = <<call.text[k]>>

\* C15: in split with a pattern vector of length tlen, text element i is
\* paired with pattern element (i mod tlen) and every text index receives
\* exactly one result; where the paired pattern element is Missing the result
\* is the one-element vector holding the text element unchanged.
C15_PairedByIndex == [][PairedStep]_vars /\ []AllAnswered

\* a split by three pattern elements, the last one Missing, has returned for
\* a vector longer than the pattern
C15_Witness ==
    /\ pc = "done" /\ call.op = "strsplit"
    /\ Len(call.pat) = 3 /\ Len(call.text) >= 6
    /\ TokenOf(6).na /\ ans[6] = <<call.text[6]>>
    /\ ans[4] # <<call.text[4]>>


(***************************************************************************)
(* C16: index.type and useBytes on the results of the locating operations  *)
(***************************************************************************)
\* the results of the call that carry attributes of their own: the one
\* vector of regexpr, every element of the list of gregexpr and regexec
AttrResults ==
    IF call.op = "regexpr" THEN {0} ELSE 1 .. Len(call.text)

\* whether result k carries the attribute useBytes (which is then TRUE)
HasUseBytes(k) == IF call.op = "regexpr" THEN ans.useBytes ELSE ans[k].useBytes

\* the attribute index.type of result k; "" when it is not set
IndexTypeOf(k) == IF HasUseBytes(k) THEN g.itype ELSE ""

\* a locating call that has returned in Bytes mode
BytesModeReturned ==
    /\ pc = "done" /\ call.op \in {"regexpr", "gregexpr", "regexec"}
    /\ mode.useBytes

\* whether result k answers a Missing element of a list-valued operation
OfMissingElt(k) == k > 0 /\ call.text[k].na

\* C16 as stated: in Bytes mode, however it was chosen, every result carries
\* index.type = "bytes" together with useBytes = TRUE
C16_AsStated ==
    BytesModeReturned =>
        \A k \in AttrResults : HasUseBytes(k) /\ IndexTypeOf(k) = "bytes"

\* C16: in Bytes mode every result other than the one of a Missing element of
\* gregexpr or regexec carries useBytes = TRUE together with index.type, and
\* index.type is "bytes" when the use_bytes flag was passed and "chars" when
\* the mode was reached by the all-ASCII rule or a byte-tagged input; the
\* result of a Missing element of gregexpr or regexec carries neither
C16_IndexType ==
    BytesModeReturned =>
        \A k \in AttrResults :
            IF OfMissingElt(k)
            THEN ~HasUseBytes(k) /\ IndexTypeOf(k) = ""
            ELSE /\ HasUseBytes(k)
                 /\ IndexTypeOf(k) = (IF call.useBytes THEN "bytes" ELSE "chars")

\* a call without the use_bytes flag has returned in Bytes mode with a
\* result that carries useBytes = TRUE and index.type = "chars"
C16_Witness ==
    /\ BytesModeReturned /\ ~call.useBytes
    /\ \E k \in AttrResults : HasUseBytes(k) /\ IndexTypeOf(k) = "chars"
    /\ \E k \in 1 .. Len(call.text) : call.text[k].enc = "bytes"


(***************************************************************************)
(* C17: the capture groups of a Perl match lie inside the match            *)
(***************************************************************************)
\* the matches a finished Perl call of regexpr or gregexpr reports: the
\* records of the match start, its length and the start and length of each
\* capture group
PerlMatches ==
    IF ~(pc = "done" /\ call.perl /\ call.op \in {"regexpr", "gregexpr"}) THEN {}
    ELSE IF call.op = "regexpr"
    THEN {[m |-> ans.v[k], len |-> ans.matchlen[k], cs |-> ans.cs[k], cl |-> ans.cl[k]] :
              k \in {j \in 1 .. Len(call.text) : ans.v[j] >= 1}}
    ELSE UNION {{[m |-> ans[k].v[j], len |-> ans[k].matchlen[j],
                  cs |-> ans[k].cs[j], cl |-> ans[k].cl[j]] :
                     j \in {q \in 1 .. Len(ans[k].v) : ans[k].v[q] >= 1}} :
                k \in 1 .. Len(call.text)}

\* group j of match x starts and ends inside the match
Contained(x, j) ==
    /\ x.cs[j] >= x.m
    /\ x.cs[j] + x.cl[j] <= x.m + x.len

\* group j of match x is reported as start 0, length 0: it took no part
UnsetGroup(x, j) == x.cs[j] = 0 /\ x.cl[j] = 0

\* C17 as stated: for every successful Perl match of regexpr or gregexpr and
\* every capture group i, capture.start[i] >= match start and
\* capture.start[i] + capture.length[i] <= match start + match.length
C17_AsStated ==
    \A x \in PerlMatches : \A j \in 1 .. Len(x.cs) : Contained(x, j)

\* C17 but for the groups that took no part in the match: every capture
\* group of a successful Perl match lies inside the match or is reported as
\* start 0 with length 0
C17_ExceptUnsetGroups ==
    \A x \in PerlMatches : \A j \in 1 .. Len(x.cs) :
        Contained(x, j) \/ UnsetGroup(x, j)

\* a finished Perl call reports a match with a group inside it and a match
\* whose group took no part
C17_Witness ==
    /\ \E x \in PerlMatches : Len(x.cs) > 0 /\ Contained(x, 1) /\ x.cl[1] > 0
    /\ \E x \in PerlMatches : Len(x.cs) > 0 /\ UnsetGroup(x, 1) /\ x.m >= 1


(***************************************************************************)
(* C18: the compiled pattern on the ways out of a call                     *)
(***************************************************************************)
\* control has left the call, by a return or by an error
Left == pc \in {"done", "error"}

\* the errors raised inside the loop over the elements, after compilation
LoopErrors ==
    {"input string is invalid", "input string is invalid in this locale",
     "invalid input in wtransChar"}

\* C18 as stated: on every way out of a call, the error exits raised after
\* compilation included, no compiled pattern is left allocated
C18_AsStated == Left => compiled # "live"

\* C18 for the returns alone: a call that returns has freed every pattern
\* it compiled
C18_FreedOnReturn == pc = "done" => compiled # "live"

\* a pattern is left allocated only by an error raised inside the loop
C18_LeftByLoopError ==
    (Left /\ compiled = "live") => (pc = "error" /\ err \in LoopErrors)

\* sub or gsub has left by the error of an invalid input string, raised in
\* the loop, and its compiled pattern is still allocated
C18_Witness ==
    /\ pc = "error" /\ err = "input string is invalid"
    /\ call.op \in {"sub", "gsub"}
    /\ compiled = "live"


(***************************************************************************)
(* C19: a byte-tagged input forces Bytes mode                              *)
(***************************************************************************)
\* the two bytes of U+00E9, marked as bytes
ByteElt == mkElt(Encode(<<233>>), "bytes")

TaggedElts == {NA_STRING, Str(<<97>>), mkElt(Encode(<<233>>), "utf8"), ByteElt}

TaggedPats == {Str(<<97>>), mkElt(Encode(<<233>>), "utf8"), ByteElt}

TaggedTexts == {<<e>> : e \in TaggedElts} \cup {<<q[1], q[2]>> : q \in TaggedElts \X TaggedElts}

\* the pattern, the replacement (sub and gsub) or a text element of the call
\* is byte-tagged
ByteTagged(c) ==
    \/ AnyMarked(c.pat, "bytes")
    \/ c.op \in {"sub", "gsub"} /\ IS_BYTES(c.rep)
    \/ AnyMarked(c.text, "bytes")

\* a call of any operation without use_bytes, with a byte-tagged input
IsTaggedCall(c) ==
    \E op \in {"strsplit", "grep", "grepl", "sub", "gsub", "regexpr", "gregexpr", "regexec"},
       fixed \in BOOLEAN, perl \in BOOLEAN :
        /\ fixed => ~perl
        /\ op = "regexec" => ~perl
        /\ \E p \in TaggedPats, x \in TaggedTexts,
              r \in (IF op \in {"sub", "gsub"} THEN {Str(<<45>>), ByteElt} ELSE {NoRep}) :
              /\ c = mkCall(op, <<p>>, r, x, fixed, perl, FALSE, FALSE, FALSE)
              /\ ByteTagged(c)

InitTagged == IsTaggedCall(call) /\ InitRest

SpecTagged == InitTagged /\ [][Next]_vars

\* the mode selection of the call has run: split selects on every call, the
\* other operations once the pattern is known not to be Missing
Classified == pc # "intake" /\ (call.op = "strsplit" \/ ~call.pat[1].na)

\* C19: without use_bytes, a byte-tagged pattern, replacement (sub and gsub)
\* or text element makes the mode selection of every operation choose Bytes
\* mode, and neither Utf8 nor wide-character mode is chosen in the call
C19_BytesForced ==
    (~call.useBytes /\ ByteTagged(call)) =>
        /\ Classified => mode.useBytes
        /\ ~mode.use_UTF8 /\ ~mode.use_WC

\* a Perl call whose only byte-tagged input is one text element beside a
\* UTF-8 one has selected Bytes mode and worked on its elements
C19_Witness ==
    /\ Classified /\ ~call.useBytes /\ call.perl
    /\ ~AnyMarked(call.pat, "bytes") /\ AnyMarked(call.pat, "utf8")
    /\ AnyMarked(call.text, "bytes") /\ AnyMarked(call.text, "utf8")
    /\ mode.useBytes /\ pc = "done"


(***************************************************************************)
(* C20: a user interrupt raised while a call is running                    *)
(***************************************************************************)
\* the host's signal handler: it only raises the flag, at any moment of a
\* running call; the flag is acted on where R_CheckUserInterrupt is called
handleInterrupt ==
    /\ pc \notin {"done", "error"}
    /\ ~R_interrupts_pending
    /\ R_interrupts_pending' = TRUE
    /\ UNCHANGED <<call, mode, pc, itok, i, ans, ind, g, compiled, tried, mt, nwarn,
                   warns, err>>

NextIntr == Next \/ handleInterrupt

SpecIntr == InitTagged /\ [][NextIntr]_vars

\* a step that works on an element: a turn of the loop over the elements or
\* an iteration of the match loop of one element
ElementStep ==
    /\ pc \in {"loop", "inner"}
    /\ i' # i \/ ans' # ans \/ ind' # ind \/ g' # g \/ tried' # tried \/ pc' = "error"

\* C20 as stated: once the interrupt flag is raised, the call works on no
\* further element and no further match: it stops at the next element
\* boundary or match iteration
C20_AsStated == [][R_interrupts_pending => ~ElementStep]_vars

\* the flag is never taken down: no step of a call consults it
C20_NeverConsulted == [][R_interrupts_pending => R_interrupts_pending']_vars

\* a call has returned with every element tried while the flag was raised
\* and is still pending
C20_Witness ==
    /\ R_interrupts_pending /\ pc = "done"
    /\ Len(call.text) = 2 /\ tried = {0, 1}


(***************************************************************************)
(* C21: the step after an empty match in Utf8 mode                         *)
(***************************************************************************)
\* element k is a valid UTF-8 subject of a Perl call that runs in Utf8 mode
Utf8Subject(k) ==
    /\ call.perl /\ ~call.fixed /\ mode.use_UTF8
    /\ ~call.text[k].na /\ utf8Valid(translateCharUTF8(call.text[k]))

\* gsub: after each empty match before the end of the subject the scan
\* resumes at the end of the character at the match, later matches start at
\* or after it, and the result is whole characters
GsubAdvancesChar(k) ==
    LET s == translateCharUTF8(call.text[k])
        tr == mt[k]
    IN  /\ \A j \in 1 .. Len(tr) :
              (tr[j].so = tr[j].eo /\ tr[j].eo < Len(s)) =>
                  /\ AdvanceChar(s, tr[j].eo, TRUE) = tr[j].eo + utf8clen(s[tr[j].eo + 1])
                  /\ IsBoundary(s, AdvanceChar(s, tr[j].eo, TRUE))
                  /\ j < Len(tr) => tr[j + 1].so >= AdvanceChar(s, tr[j].eo, TRUE)
        /\ ans[k] # UNSET => utf8Valid(ans[k].s)

\* C21 for gsub: in Utf8 mode the loop of gsub steps over the whole
\* character after an empty match
C21_GsubAdvance ==
    (call.op = "gsub" /\ pc \in {"loop", "done"}) =>
        \A k \in 1 .. Len(call.text) :
            (Utf8Subject(k) /\ (k - 1) \in tried) => GsubAdvancesChar(k)

\* gregexpr: the offset of every match attempt is a character boundary
GregexprOnBoundary ==
    (call.op = "gregexpr" /\ pc = "inner" /\ g.lp.drv = "pcre" /\ Utf8Subject(i + 1)) =>
        IsBoundary(g.lp.s, g.lp.offset)

\* split: no token is a partial character
SplitWholeChars ==
    (call.op = "strsplit" /\ pc = "done") =>
        \A k \in 1 .. Len(call.text) :
            Utf8Subject(k) => \A j \in 1 .. Len(ans[k]) : utf8Valid(ans[k][j].s)

\* C21 as stated: in Utf8 mode the all-matches loops of gsub, gregexpr and
\* split (Perl dialect) step over the whole character after an empty match,
\* so every later attempt starts on a character boundary and no token or
\* copied fragment is a partial character
C21_AsStated == C21_GsubAdvance /\ GregexprOnBoundary /\ SplitWholeChars

\* gsub has stepped over a two-byte character after an empty match
C21_Witness ==
    /\ call.op = "gsub" /\ pc = "done"
    /\ \E k \in 1 .. Len(call.text) :
          /\ Utf8Subject(k) /\ (k - 1) \in tried
          /\ \E j \in 1 .. Len(mt[k]) :
                /\ mt[k][j].so = mt[k][j].eo
                /\ mt[k][j].eo < Len(translateCharUTF8(call.text[k]))
                /\ utf8clen(translateCharUTF8(call.text[k])[mt[k][j].eo + 1]) = 2


(***************************************************************************)
(* grepRaw                                                                 *)
(***************************************************************************)
\* the size of the buffer of matches kept on the stack by the literal search
MAX_MATCHES_MINIBUF == 32

\* the initial size of the integer vector of matches of the regex search
res_alloc_init == 512

\* a call of grepRaw: pat and text are raw vectors, offset is 1-based
grepRawCall(pat, text, offset, fixed, value, all, invert) ==
    [op |-> "grepRaw", pat |-> pat, text |-> text, offset |-> offset, fixed |-> fixed,
     value |-> value, all |-> all, invert |-> invert]

\* fgrepraw1: the 0-based offset of the first occurrence of pat in text at or
\* after offset, or -1
fgrepraw1(pat, text, offset) ==
    LET hits == {p \in offset .. (Len(text) - Len(pat)) : StartsWithAt(text, p, pat)}
    IN  IF Len(text) < Len(pat) \/ hits = {} THEN -1
        ELSE CHOOSE p \in hits : \A q \in hits : p <= q

\* text without the bytes [from, to)
RawWithout(text, from, to) == Slice(text, 0, from) \o Suffix(text, to)

\* the literal search for the first match, res being the result of fgrepraw1
grepraw_fixed_first(pat, text, res, value, invert) ==
    IF invert
    THEN IF res = -1 THEN Vector("raw", text)
         ELSE Vector("raw", RawWithout(text, res, res + Len(pat)))
    ELSE IF res = -1 THEN Vector(IF value THEN "raw" ELSE "integer", <<>>)
    ELSE IF ~value THEN Vector("integer", <<res + 1>>)
    ELSE Vector("raw", pat)

\* the regex search for the first match, r being the result of the engine on
\* the text from offset on
grepraw_regex_first(text, offset, r, value, invert) ==
    IF value
    THEN IF r.rc # 0 \/ r.eo = r.so
         THEN Vector("raw", IF invert THEN text ELSE <<>>)
         ELSE IF invert
         \* memcpy(ansp, RAW(text), ptag.rm_so), then the bytes from
         \* RAW(text) + ptag.rm_eo on
         THEN Vector("raw", RawWithout(text, r.so, r.eo))
         ELSE Vector("raw", Slice(text, offset + r.so, offset + r.eo))
    ELSE IF r.rc = 0 THEN Vector("integer", <<r.so + 1 + offset>>)
    ELSE Vector("integer", <<>>)

\* the state of the two all-matches loops on entry
RawLoop(offset, invert, re) ==
    [offset |-> offset, invert |-> invert, re |-> re, eflags |-> FALSE, nmatches |-> 0,
     matches |-> <<>>, res |-> <<<<>>>>, res_alloc |-> res_alloc_init, res_ptr |-> 0,
     at |-> <<>>]

\* argument checks; a search for the first match is answered at once, a
\* search for all matches enters its loop
do_grepraw_intake ==
    /\ pc = "intake" /\ call.op = "grepRaw"
    /\ LET invert == call.invert /\ call.value
           offset == call.offset - 1
           answer(v) == /\ ans' = v /\ pc' = "done" /\ UNCHANGED <<g, err, compiled>>
       IN  /\ warns' = IF call.invert /\ ~call.value
                       THEN <<<<0, "argument 'invert = TRUE' will be ignored">>>>
                       ELSE warns
           /\ IF call.offset < 1
              THEN /\ pc' = "error" /\ err' = "invalid 'offset' argument"
                   /\ UNCHANGED <<ans, g, compiled>>
              ELSE IF call.offset > Len(call.text) THEN answer(Vector("integer", <<>>))
              ELSE IF call.fixed
              THEN IF Len(call.pat) = 0
                   THEN answer(Vector(IF call.value
                                      THEN (IF call.all THEN "list" ELSE "raw")
                                      ELSE "integer", <<>>))
                   ELSE IF ~call.all
                   THEN answer(grepraw_fixed_first(call.pat, call.text,
                                                   fgrepraw1(call.pat, call.text, offset),
                                                   call.value, invert))
                   ELSE /\ g' = RawLoop(offset, invert, NoRe)
                        /\ pc' = "rawfixed"
                        /\ UNCHANGED <<ans, err, compiled>>
              ELSE IF ~call.all
              THEN /\ ans' = grepraw_regex_first(
                                 call.text, offset,
                                 tre_regexec(regcomp(call.pat, FALSE),
                                             Suffix(call.text, offset), FALSE),
                                 call.value, invert)
                   /\ compiled' = "freed"
                   /\ pc' = "done"
                   /\ UNCHANGED <<g, err>>
              ELSE /\ g' = RawLoop(offset, invert, regcomp(call.pat, FALSE))
                   /\ compiled' = "live"
                   /\ pc' = "rawloop"
                   /\ UNCHANGED <<ans, err>>
    /\ UNCHANGED <<R_interrupts_pending, call, mode, itok, i, ind, tried, mt, nwarn>>

\* one turn of the first loop of the literal search for all matches, found
\* being the result of fgrepraw1: only the first MAX_MATCHES_MINIBUF matches
\* are kept
grepraw_fixed_turn(found) ==
    IF found = -1 THEN /\ pc' = "rawfixedend" /\ g' = [g EXCEPT !.offset = -1]
    ELSE /\ g' = [g EXCEPT !.matches = IF g.nmatches < MAX_MATCHES_MINIBUF
                                       THEN Append(g.matches, found + 1)
                                       ELSE g.matches,
                           !.nmatches = g.nmatches + 1,
                           !.offset = found + Len(call.pat),
                           !.at = Append(g.at, g.offset)]
         /\ pc' = IF found + Len(call.pat) < Len(call.text) THEN "rawfixed"
                  ELSE "rawfixedend"

grepraw_fixed_scan ==
    /\ pc = "rawfixed" /\ call.op = "grepRaw"
    /\ grepraw_fixed_turn(fgrepraw1(call.pat, call.text, g.offset))
    /\ UNCHANGED <<R_interrupts_pending, call, mode, itok, i, ans, ind, compiled, tried, mt, nwarn,
                   warns, err>>

\* the second pass of the literal search: the matches after the last one the
\* mini buffer holds
RECURSIVE grepraw_fixed_pass2(_, _, _, _)
\* found is the result of fgrepraw1 at the offset of the pass
grepraw_fixed_more(pat, text, found, acc) ==
    IF found = -1 THEN acc
    ELSE grepraw_fixed_pass2(pat, text, found + Len(pat), Append(acc, found + 1))

grepraw_fixed_pass2(pat, text, offset, acc) ==
    IF offset >= Len(text) THEN acc
    ELSE grepraw_fixed_more(pat, text, fgrepraw1(pat, text, offset), acc)

\* the matches the mini buffer holds, and no more
grepraw_minibuf_only(pat, text, matches, nmatches) == matches

\* all the matches of the literal search: the mini buffer, and beyond it the
\* second pass from the end of the last match kept
grepraw_fixed_matches(pat, text, matches, nmatches) ==
    IF nmatches <= MAX_MATCHES_MINIBUF THEN matches
    ELSE grepraw_fixed_pass2(pat, text,
                             matches[MAX_MATCHES_MINIBUF] + Len(pat) - 1, matches)

\* the pieces of text around the matches that start at the 1-based positions
\* starts and have the lengths lens
RawPieces(text, starts, lens) ==
    [k \in 1 .. (Len(starts) + 1) |->
        Slice(text,
              IF k = 1 THEN 0 ELSE starts[k - 1] - 1 + lens[k - 1],
              IF k > Len(starts) THEN Len(text) ELSE starts[k] - 1)]

\* the result of the literal search for all matches, fmatches being all the
\* matches
grepraw_fixed_all(pat, text, fmatches, nmatches, value, invert) ==
    IF value
    THEN IF invert
         THEN IF nmatches = 0 THEN Vector("raw", text)
              ELSE Vector("list", RawPieces(text, fmatches,
                                            [k \in 1 .. Len(fmatches) |-> Len(pat)]))
         ELSE Vector("list", [k \in 1 .. nmatches |-> pat])
    ELSE Vector("integer", fmatches)

\* the result of the literal search for all matches is made
grepraw_fixed_finish ==
    /\ pc = "rawfixedend" /\ call.op = "grepRaw"
    /\ ans' = grepraw_fixed_all(call.pat, call.text,
                                grepraw_fixed_matches(call.pat, call.text, g.matches,
                                                      g.nmatches),
                                g.nmatches, call.value, g.invert)
    /\ pc' = "done"
    /\ UNCHANGED <<R_interrupts_pending, call, mode, itok, i, ind, g, compiled, tried, mt, nwarn,
                   warns, err>>

\* the list of result vectors with room for the entries of one more match: a
\* full last vector is followed by a new one of twice its size, up to 32 Mb
res_store(lp) ==
    IF lp.res_ptr >= lp.res_alloc
    THEN [lp EXCEPT !.res_alloc = IF lp.res_alloc < 33554432 THEN 2 * lp.res_alloc
                                  ELSE lp.res_alloc,
                    !.res = Append(lp.res, <<>>),
                    !.res_ptr = 0]
    ELSE lp

\* the start of a match, and its length when values are asked for, written
\* to the last vector of lp
res_write(lp, start, len, value) ==
    [lp EXCEPT !.res[Len(lp.res)] = lp.res[Len(lp.res)]
                                        \o (IF value THEN <<start, len>> ELSE <<start>>),
               !.res_ptr = lp.res_ptr + (IF value THEN 2 ELSE 1)]

res_store_match(lp, start, len, value) == res_write(res_store(lp), start, len, value)

\* whether the loop ends on an empty match with the warning: a first match is
\* tried again with REG_NOTBOL, r2 being the result of that
infinite_match(nmatches, r2) == ~(nmatches = 1 /\ (r2.rc # 0 \/ r2.eo # 0))

\* a test that lets the loop go on after an empty match
ends_at_end_only(eo, offset, len) == offset >= len

\* whether the loop ends after a match that ended at eo (relative to the
\* attempt) and has moved the offset: an empty match at the offset of the
\* attempt ends it, and so does the end of the text
ends_loop(eo, offset, len) == eo = 0 \/ offset >= len

\* one turn of the loop of the regex search for all matches, r being the
\* result of the engine on the text from offset on
grepraw_regex_turn(lp, r) ==
    IF r.rc # 0 THEN /\ pc' = "rawend" /\ g' = [lp EXCEPT !.at = Append(lp.at, lp.offset)]
                     /\ warns' = warns
    ELSE LET lp2 == [res_store_match(lp, r.so + 1 + lp.offset, r.eo - r.so, call.value)
                        EXCEPT !.eflags = TRUE,
                               !.offset = lp.offset + r.eo,
                               !.nmatches = lp.nmatches + 1,
                               !.at = Append(lp.at, lp.offset)]
         IN  /\ g' = lp2
             /\ pc' = IF ends_loop(r.eo, lp2.offset, Len(call.text)) THEN "rawend"
                      ELSE "rawloop"
             /\ IF r.eo = 0
                THEN warns' = IF infinite_match(lp2.nmatches,
                                                tre_regexec(lp.re,
                                                            Suffix(call.text, lp2.offset),
                                                            TRUE))
                              THEN Append(warns, <<0, "pattern matches an empty string infinitely, returning first match only">>)
                              ELSE warns
                ELSE warns' = warns

grepraw_regex_match ==
    /\ pc = "rawloop" /\ call.op = "grepRaw"
    /\ grepraw_regex_turn(g, tre_regexec(g.re, Suffix(call.text, g.offset), g.eflags))
    /\ UNCHANGED <<R_interrupts_pending, call, mode, itok, i, ans, ind, compiled, tried, mt, nwarn,
                   err>>

\* the entries of the list of result vectors, in the order of the list
RECURSIVE res_entries(_, _)
res_entries(res, k) == IF k > Len(res) THEN <<>> ELSE res[k] \o res_entries(res, k + 1)

\* the result of the regex search for all matches from the entries stored
grepraw_regex_all(text, e, nmatches, value, invert) ==
    IF ~value THEN Vector("integer", e)
    ELSE IF invert
    THEN Vector("list", RawPieces(text, [k \in 1 .. nmatches |-> e[2 * k - 1]],
                                  [k \in 1 .. nmatches |-> e[2 * k]]))
    ELSE Vector("list", [k \in 1 .. nmatches |->
                            Slice(text, e[2 * k - 1] - 1, e[2 * k - 1] - 1 + e[2 * k])])

\* the result of the regex search for all matches is made and the compiled
\* pattern freed
grepraw_regex_finish ==
    /\ pc = "rawend" /\ call.op = "grepRaw"
    /\ ans' = grepraw_regex_all(call.text, res_entries(g.res, 1), g.nmatches, call.value,
                                g.invert)
    /\ compiled' = "freed"
    /\ pc' = "done"
    /\ UNCHANGED <<R_interrupts_pending, call, mode, itok, i, ind, g, tried, mt, nwarn, warns, err>>

NextRaw ==
    \/ do_grepraw_intake
    \/ grepraw_fixed_scan
    \/ grepraw_fixed_finish
    \/ grepraw_regex_match
    \/ grepraw_regex_finish

\* n bytes "a"
RawRun(n) == [k \in 1 .. n |-> 97]

\* the raw vectors: every vector of at most MaxLen bytes "a" and "b"
RawShort == UNION {[1 .. n -> {97, 98}] : n \in 0 .. MaxLen}

\* the patterns of grepRaw: "", "a", "b", "ab", and the sources the engines know
RawPats == {<<>>, <<97>>, <<98>>, <<97, 98>>} \cup {p \in RegexSources : strIsASCII(p)}

\* runs of "a" that outgrow the mini buffer and the first vector of matches
RawLong == {RawRun(MAX_MATCHES_MINIBUF + 2), RawRun(res_alloc_init \div 2 + 2),
            RawRun(res_alloc_init + 2)}

\* a call of grepRaw: short vectors with every pattern and offset, long runs
\* searched for all "a" from their start, the longer ones by the regex search
IsRawCall(c) ==
    \E fixed \in BOOLEAN, value \in BOOLEAN, all \in BOOLEAN, invert \in BOOLEAN :
        \/ \E p \in RawPats, x \in RawShort, o \in 0 .. (MaxLen + 1) :
              /\ ~fixed \/ p \notin RegexSources \/ Len(p) = 1
              /\ fixed \/ Len(p) > 0
              /\ c = grepRawCall(p, x, o, fixed, value, all, invert)
        \/ \E x \in RawLong :
              /\ all
              /\ fixed => Len(x) = MAX_MATCHES_MINIBUF + 2
              /\ c = grepRawCall(<<97>>, x, 1, fixed, value, all, invert)

InitRaw == IsRawCall(call) /\ InitRest

SpecRaw == InitRaw /\ [][NextRaw]_vars


(***************************************************************************)
(* Every all-matches loop, on the patterns "^a" and "a*"                   *)
(***************************************************************************)
\* the pattern "^a"
BolPat == mkCharCE(<<94, 97>>, "utf8")

\* the pattern "a*"
StarPat == mkCharCE(<<97, 42>>, "utf8")

\* a regex call with the pattern "^a" or "a*", a literal gregexpr for "a", or a
\* call of grepRaw
InitScan ==
    /\ \/ /\ \/ call \in SplitCalls
             \/ IsSubCall(call)
             \/ IsGrepCall(call)
             \/ IsRegexprCall(call, {"regexpr", "gregexpr"})
             \/ IsRegexecCall(call)
          /\ \/ ~call.fixed /\ call.pat[1] \in {BolPat, StarPat}
             \/ call.fixed /\ call.op = "gregexpr" /\ call.pat[1] = Str(<<97>>)
       \/ IsRawCall(call)
    /\ InitRest

NextScan == Next \/ NextRaw

SpecScan == InitScan /\ [][NextScan]_vars


(***************************************************************************)
(* C22: the not-at-line-start flag of the all-matches loops                *)
(***************************************************************************)
\* gsub with "^a": every match starts at the start of the subject
GsubBolAtStart ==
    (call.op = "gsub" /\ ~call.fixed /\ call.pat[1] = BolPat) =>
        \A k \in 1 .. Len(mt) : \A j \in 1 .. Len(mt[k]) : mt[k][j].so = 0

\* gregexpr: the flag is set exactly when an attempt has been made, and with
\* "^a" every match starts at the start of the subject
GregexprBolAtStart ==
    (call.op = "gregexpr" /\ pc = "inner" /\ g.lp.drv \in {"regexc", "pcre"}) =>
        /\ g.lp.drv = "regexc" => (g.lp.notbol <=> g.lp.foundAny)
        /\ call.pat[1] = BolPat => \A j \in 1 .. Len(g.lp.mb) : g.lp.mb[j] = 1

\* grepRaw: the flag is set exactly when a match has been made, and with "^a"
\* every match starts where the search started
GrepRawBolAtStart ==
    (call.op = "grepRaw" /\ pc \in {"rawloop", "rawend"}) =>
        /\ pc = "rawloop" => (g.eflags <=> g.nmatches > 0)
        /\ call.pat = <<94, 97>> =>
              /\ g.nmatches <= 1
              /\ g.nmatches = 1 => res_entries(g.res, 1)[1] = call.offset

\* split with "^a": a subject has at most one match, so at most two tokens
SplitBolAtStart ==
    (call.op = "strsplit" /\ pc = "done" /\ ~call.fixed /\ call.pat[1] = BolPat) =>
        \A k \in 1 .. Len(call.text) : ~call.text[k].na => Len(ans[k]) <= 2

RECURSIVE LeadA(_)
LeadA(s) == IF Len(s) > 0 /\ s[1] = 97 THEN 1 + LeadA(Tail(s)) ELSE 0

\* split never sets the flag: every remainder is matched as a subject of its
\* own, so "^a" takes every leading "a" as a token separator
SplitBolEveryRemainder ==
    (call.op = "strsplit" /\ pc = "done" /\ ~call.fixed /\ call.pat[1] = BolPat) =>
        \A k \in 1 .. Len(call.text) :
            ~call.text[k].na =>
                LET n == LeadA(call.text[k].s)
                IN  /\ Len(ans[k]) = n + (IF n < Len(call.text[k].s) THEN 1 ELSE 0)
                    /\ \A j \in 1 .. n : ans[k][j].s = <<>>

InfiniteWarning ==
    <<0, "pattern matches an empty string infinitely, returning first match only">>

\* the number of times the warning was given
InfiniteWarnings == Cardinality({k \in 1 .. Len(warns) : warns[k] = InfiniteWarning})

\* the warning is given at most once in a call, and the loop ends with it
C23_AtMostOnce ==
    call.op = "grepRaw" =>
        /\ InfiniteWarnings <= 1
        /\ InfiniteWarnings = 1 => pc \in {"rawend", "done"}

\* C23 as stated: the warning is given at most once in a call, and when it is
\* given the result holds the first match only
C23_AsStated ==
    /\ C23_AtMostOnce
    /\ (call.op = "grepRaw" /\ pc = "done" /\ InfiniteWarnings = 1) =>
          /\ g.nmatches = 1
          /\ Len(ans.v) = IF g.invert THEN 2 ELSE 1

\* the warning was given in a finished search for all matches
C23_Witness == call.op = "grepRaw" /\ pc = "done" /\ InfiniteWarnings = 1


(***************************************************************************)
(* C24: the expansion of the replacement in the Perl dialect               *)
(***************************************************************************)
\* replacements with back-references, case marks and escapes: "\U\1-\L\1",
\* "\1\U\1\E\1", "\2x", "x\", "\\1", "\Ub\1", "\1\U", "\-\L\U\1b"
PerlReps ==
    {Str(<<92, 85, 92, 49, 45, 92, 76, 92, 49>>),
     Str(<<92, 49, 92, 85, 92, 49, 92, 69, 92, 49>>),
     Str(<<92, 50, 120>>),
     Str(<<120, 92>>),
     Str(<<92, 92, 49>>),
     Str(<<92, 85, 98, 92, 49>>),
     Str(<<92, 49, 92, 85>>),
     Str(<<92, 45, 92, 76, 92, 85, 92, 49, 98>>)}

\* the pattern "(a)|b": group 1 is set in a match of "a" and unset in a match
\* of "b", group 2 is absent
AltPat == mkCharCE(<<40, 97, 41, 124, 98>>, "utf8")

\* a Perl call of sub or gsub with the pattern "(a)|b"
IsReplCall(c) ==
    \E op \in {"sub", "gsub"}, ub \in BOOLEAN, r \in PerlReps, x \in TextVectors :
        c = mkCall(op, <<AltPat>>, r, x, FALSE, TRUE, ub, FALSE, FALSE)

InitRepl == IsReplCall(call) /\ InitRest

SpecRepl == InitRepl /\ [][NextSub]_vars

\* the replacement from position p on as a sequence of items: a group, a case
\* mark, or a character
RECURSIVE ReplItems(_, _)
ReplItems(repl, p) ==
    IF p > Len(repl) THEN <<>>
    ELSE IF repl[p] # 92 THEN <<[item |-> "char", c |-> repl[p]]>> \o ReplItems(repl, p + 1)
    ELSE IF p = Len(repl) THEN <<>>
    ELSE (IF repl[p + 1] \in 49 .. 57 THEN <<[item |-> "group", c |-> repl[p + 1] - 48]>>
          ELSE IF repl[p + 1] \in {85, 76, 69} THEN <<[item |-> "case", c |-> repl[p + 1]]>>
          ELSE <<[item |-> "char", c |-> repl[p + 1]]>>)
         \o ReplItems(repl, p + 2)

\* the case flag at item j: the last case mark before it, off when none
CaseAt(items, j) ==
    LET marks == {m \in 1 .. (j - 1) : items[m].item = "case"}
    IN  IF marks = {} THEN 69 ELSE items[CHOOSE m \in marks : \A n \in marks : n <= m].c

\* the bytes of group d of a match of "(a)|b" whose text is x
AltGroup(x, d) == IF d = 1 /\ x = <<97>> THEN x ELSE <<>>

\* what item j emits for a match whose text is x
ItemEmits(items, j, x) ==
    IF items[j].item = "char" THEN <<items[j].c>>
    ELSE IF items[j].item = "case" THEN <<>>
    ELSE LET grp == AltGroup(x, items[j].c)
         IN  [n \in 1 .. Len(grp) |->
                 IF CaseAt(items, j) = 85 THEN grp[n] - 32 ELSE grp[n]]

RECURSIVE EmitsFrom(_, _, _)
EmitsFrom(items, j, x) ==
    IF j > Len(items) THEN <<>> ELSE ItemEmits(items, j, x) \o EmitsFrom(items, j + 1, x)

ReplacedBefore(k, j) == {n \in 1 .. (j - 1) : mt[k][n].rep}

\* C25: in the regex loops of gsub a match is replaced exactly when it ends
\* beyond every match replaced before it, so the ends of the replaced matches
\* increase strictly, and an empty match at the end of the match before it is
\* not replaced
C25_LastEndGuard ==
    (call.op = "gsub" /\ ~call.fixed) =>
        \A k \in 1 .. Len(mt) : \A j \in 1 .. Len(mt[k]) :
            /\ mt[k][j].rep <=> \A n \in ReplacedBefore(k, j) : mt[k][j].eo > mt[k][n].eo
            /\ (j > 1 /\ mt[k][j].so = mt[k][j].eo /\ mt[k][j].eo = mt[k][j - 1].eo
                /\ mt[k][j - 1].so < mt[k][j - 1].eo) => ~mt[k][j].rep

\* gsub found an empty match at the end of a match it had replaced, and did
\* not replace it
C25_Witness ==
    /\ call.op = "gsub" /\ ~call.fixed /\ pc = "done"
    /\ \E k \in 1 .. Len(mt) : \E j \in 2 .. Len(mt[k]) :
          /\ mt[k][j - 1].rep /\ mt[k][j - 1].so < mt[k][j - 1].eo
          /\ mt[k][j].so = mt[k][j].eo /\ mt[k][j].eo = mt[k][j - 1].eo
          /\ ~mt[k][j].rep


(***************************************************************************)
(* C26: the position mapper                                                *)
(***************************************************************************)
\* the strings of at most MaxLen + 1 bytes over "a" and the two bytes of "é"
MapStrings == UNION {[1 .. n -> {97, 195, 169}] : n \in 0 .. (MaxLen + 1)}

\* the offsets of the strings one after the other through the mapper, in
\* Bytes or in Utf8 mode
InitMap ==
    /\ \E s \in MapStrings, u \in BOOLEAN : call = [op |-> "map", s |-> s, use_UTF8 |-> u]
    /\ InitRest

\* the match that starts at byte offset i and ends with the string is mapped
position_map ==
    /\ call.op = "map" /\ pc = "intake" /\ i <= Len(call.s)
    /\ ans' = Append(ans, ovector_extract_start_length(call.use_UTF8, i, Len(call.s),
                                                       call.s))
    /\ i' = i + 1
    /\ UNCHANGED <<R_interrupts_pending, call, mode, pc, itok, ind, g, compiled, tried, mt, nwarn,
                   warns, err>>

SpecMap == InitMap /\ [][position_map]_vars

\* the byte offsets mapped so far that are character boundaries
MappedBoundaries == {b \in 0 .. (Len(ans) - 1) : IsBoundary(call.s, b)}

\* the character offset the mapper gave for byte offset b
CharOffset(b) == ans[b + 1].m - 1

RawAllDone ==
    /\ call.op = "grepRaw" /\ pc = "done" /\ call.all
    /\ call.offset >= 1 /\ call.offset <= Len(call.text) /\ Len(call.pat) > 0

\* the literal search: v is the chain of the first occurrence at or after the
\* offset, the first at or after the end of that, and so on to the last
FixedChain(v) ==
    /\ \A k \in 1 .. Len(v) :
          v[k] - 1 = fgrepraw1(call.pat, call.text,
                               IF k = 1 THEN call.offset - 1
                               ELSE v[k - 1] - 1 + Len(call.pat))
    /\ LET last == IF Len(v) = 0 THEN call.offset - 1
                   ELSE v[Len(v)] - 1 + Len(call.pat)
       IN  last >= Len(call.text) \/ fgrepraw1(call.pat, call.text, last) = -1

\* the regex search: the starts st(1), ..., st(n) are the chain of the first
\* match from the offset, the first from the end of that, and so on, the
\* attempts having been made at the offsets at; the chain ends at the end of
\* the text, at an attempt without a match, or at an empty match at the
\* offset of the attempt
RegexChain(st(_), n, at) ==
    /\ at[1] = call.offset - 1
    /\ \A k \in 1 .. n :
          LET r == tre_regexec(g.re, Suffix(call.text, at[k]), k > 1)
          IN  /\ r.rc = 0
              /\ st(k) = at[k] + r.so + 1
              /\ IF k < n THEN r.eo > 0 /\ at[k + 1] = at[k] + r.eo
                 ELSE \/ r.eo = 0
                      \/ at[k] + r.eo >= Len(call.text)
                      \/ /\ Len(at) = n + 1 /\ at[n + 1] = at[k] + r.eo
                         /\ tre_regexec(g.re, Suffix(call.text, at[n + 1]), TRUE).rc # 0
    /\ n = 0 => tre_regexec(g.re, Suffix(call.text, at[1]), FALSE).rc # 0

\* C27: grepRaw with all = TRUE returns the 1-based starts of the successive
\* matches at or after offset, each search resuming at the end of the match
\* before, in increasing order and one entry per match, whatever the number
\* of result vectors (regex) or of matches beyond the mini buffer (literal)
C27_AllMatches ==
    RawAllDone =>
        /\ ~call.value =>
              /\ Len(ans.v) = g.nmatches
              /\ \A k \in 2 .. Len(ans.v) : ans.v[k - 1] < ans.v[k]
              /\ IF call.fixed THEN FixedChain(ans.v)
                 ELSE RegexChain(LAMBDA k : ans.v[k], g.nmatches, g.at)
        /\ call.value =>
              /\ Len(ans.v) = IF g.invert /\ (g.nmatches > 0 \/ ~call.fixed)
                              THEN g.nmatches + 1
                              ELSE IF g.invert THEN Len(call.text) ELSE g.nmatches
              /\ ~call.fixed =>
                    RegexChain(LAMBDA k : res_entries(g.res, 1)[2 * k - 1], g.nmatches,
                               g.at)

\* the matches of a regex search filled more than one result vector, or those
\* of a literal search more than the mini buffer
C27_Witness ==
    /\ RawAllDone /\ ~call.value
    /\ \/ ~call.fixed /\ Len(g.res) = 2 /\ Len(ans.v) = res_alloc_init + 2
       \/ call.fixed /\ Len(ans.v) = MAX_MATCHES_MINIBUF + 2


(***************************************************************************)
(* C29: grepRaw with value = TRUE, invert = TRUE, all = FALSE              *)
(***************************************************************************)
\* a finished search for the first match that returns the rest of the text
RawInvertFirst ==
    /\ call.op = "grepRaw" /\ pc = "done" /\ call.value /\ call.invert /\ ~call.all
    /\ call.offset >= 1 /\ call.offset <= Len(call.text) /\ Len(call.pat) > 0

\* the first match at or after the offset as 0-based offsets into the text:
\* rc is 0 when there is one
RawFirstMatch ==
    IF call.fixed
    THEN LET res == fgrepraw1(call.pat, call.text, call.offset - 1)
         IN  [rc |-> IF res = -1 THEN 1 ELSE 0, so |-> res, eo |-> res + Len(call.pat)]
    ELSE LET r == tre_regexec(regcomp(call.pat, FALSE),
                              Suffix(call.text, call.offset - 1), FALSE)
         IN  [rc |-> r.rc, so |-> call.offset - 1 + r.so, eo |-> call.offset - 1 + r.eo]

\* the result is the text without the bytes of the first match at or after
\* the offset, and the whole text when there is no match
InvertRemovesMatch(m) ==
    ans = Vector("raw", IF m.rc # 0 THEN call.text
                        ELSE Slice(call.text, 0, m.so) \o Suffix(call.text, m.eo))

\* C29 as stated: in the literal and in the regex dialect, for every offset
\* from 1 to the length of the text, grepRaw with value = TRUE, invert = TRUE
\* and all = FALSE returns the text without the bytes of the first match at
\* or after the offset, and the whole text when there is no match
C29_AsStated == RawInvertFirst => InvertRemovesMatch(RawFirstMatch)

\* the claim holds of the literal dialect, and of the regex dialect when the
\* offset is 1
C29_FixedOrFromStart ==
    (RawInvertFirst /\ (call.fixed \/ call.offset = 1)) => InvertRemovesMatch(RawFirstMatch)

\* a match was removed that was found from an offset beyond 1
C29_Witness ==
    /\ RawInvertFirst /\ call.fixed /\ call.offset = 2 /\ RawFirstMatch.rc = 0
    /\ Len(ans.v) = Len(call.text) - Len(call.pat)


(***************************************************************************)
(* C30: the all-matches loops advance                                      *)
(***************************************************************************)
\* the lengths the subject made of element e can have: in wide characters
\* in wide-character mode, in bytes otherwise
SubjectLens(e) ==
    IF mode.use_WC THEN {Len(w.w) : w \in {x \in wtransCharAny(e) : ~x.bad}}
    ELSE {Len(Subject(e, mode).buf)}

\* gsub: a match starts at or after the end of the match before it, and
\* beyond it when that match was empty; an element has at most one match more
\* than its subject is long
GsubAdvances ==
    (call.op = "gsub" /\ pc \in {"loop", "done"}) =>
        \A k \in 1 .. Len(mt) :
            /\ mt[k] # <<>> => \E n \in SubjectLens(call.text[k]) : Len(mt[k]) <= n + 1
            /\ \A j \in 2 .. Len(mt[k]) :
                  /\ mt[k][j].so >= mt[k][j - 1].eo
                  /\ mt[k][j - 1].so = mt[k][j - 1].eo => mt[k][j].so > mt[k][j - 1].eo

\* split: an element has at most one token more than its subject is long
SplitAdvances ==
    (call.op = "strsplit" /\ pc = "done") =>
        \A k \in 1 .. Len(call.text) :
            ~call.text[k].na =>
                \E n \in SubjectLens(call.text[k]) : Len(ans[k]) <= n + 1

\* grepRaw: the offsets of the attempts increase strictly, and there are at
\* most as many matches as the text has bytes
GrepRawAdvances ==
    (call.op = "grepRaw" /\ pc \in {"rawloop", "rawend", "rawfixed", "rawfixedend"}) =>
        /\ \A k \in 2 .. Len(g.at) : g.at[k - 1] < g.at[k]
        /\ pc \in {"rawloop", "rawfixed"} /\ Len(g.at) > 0 => g.at[Len(g.at)] < g.offset
        /\ g.nmatches <= Len(call.text) + 1

\* C30: in the all-matches loops of gsub, split and grepRaw every turn ends
\* the loop or moves the scan offset forward, so an element has at most
\* len(subject) + 1 matches
C30_LoopsAdvance == GsubAdvances /\ SplitAdvances /\ GrepRawAdvances

\* gsub went on after an empty match, and grepRaw after a match
C30_Witness ==
    \/ /\ call.op = "gsub" /\ pc = "done"
       /\ \E k \in 1 .. Len(mt) :
             /\ ~mode.use_WC /\ Len(mt[k]) = Len(Subject(call.text[k], mode).buf) + 1
             /\ Len(mt[k]) >= 3 /\ mt[k][2].so = mt[k][2].eo
    \/ /\ call.op = "grepRaw" /\ pc = "rawloop" /\ Len(g.at) >= 2


(***************************************************************************)
(* The output buffer of sub and gsub, by lengths                           *)
(***************************************************************************)
INT_MAX == 2147483647

\* an element of ns units, a replacement of lits plain characters and subs
\* back-references, a literal pattern of patlen bytes; path is "fixed",
\* "bytes" (the Perl and the extended dialect on bytes) or "wide"
bufCall(path, global, ns, lits, subs, patlen) ==
    [op |-> "gsub_buf", path |-> path, global |-> global, ns |-> ns, lits |-> lits,
     subs |-> subs, patlen |-> patlen]

\* strlen(srep): a back-reference is two characters
replen(c) == c.lits + 2 * c.subs

\* maxrep = replen + (ns-2) * count_subs(srep)
maxrep(c) == replen(c) + (c.ns - 2) * c.subs

\* dnns = ns * (maxrep + 1.) + 1000 > 10000, without the product: a double holds
\* it, an int may not
dnns_above(ns, m) == ns > 0 /\ m > 9000 \div ns

\* the size of the buffer of the regex branches
nns_init(c) ==
    IF c.global
    THEN IF dnns_above(c.ns, maxrep(c) + 1)
         THEN 2 * c.ns + (IF c.path = "wide" THEN maxrep(c) ELSE replen(c)) + 1000
         ELSE c.ns * (maxrep(c) + 1) + 1000
    ELSE c.ns + maxrep(c) + 1000

\* the buffer on entry to the loop: nns units, u - cbuf = 0; wrote and cap are
\* the end of the last write and the size of the buffer it was made to
BufStart(nns) ==
    [nns |-> nns, u |-> 0, offset |-> 0, last_end |-> -1, nmatch |-> 0,
     wrote |-> 0, cap |-> nns]

\* the buffer of a regex branch is allocated
gsub_buf_alloc ==
    /\ call.op = "gsub_buf" /\ pc = "intake" /\ call.path # "fixed"
    /\ g' = BufStart(nns_init(call))
    /\ pc' = "bufloop"
    /\ UNCHANGED <<R_interrupts_pending, call, mode, itok, i, ans, ind, compiled, tried, mt, nwarn,
                   warns, err>>

\* the units an expansion writes when the groups it refers to are glen long
expansion(c, glen) == c.lits + c.subs * glen

\* the buffer after the growth test at the end of a turn,
\* nns < (u - cbuf) + (ns-offset) + maxrep + 100 (a sum of the width of a
\* pointer difference, here taken apart): one doubling, which is refused above
\* INT_MAX/2
buf_grown(b, c) ==
    IF b.nns - b.u - (c.ns - b.offset) < maxrep(c) + 100
    THEN IF b.nns > INT_MAX \div 2 THEN [b EXCEPT !.nns = -1]
         ELSE [b EXCEPT !.nns = 2 * b.nns]
    ELSE b

\* one turn of the loop of a regex branch on a match [so, eo) whose groups
\* are glen long: the units before the match and the expansion are written,
\* then the loop ends or steps over an empty match and tests the size
gsub_buf_turn(b, c, so, eo, glen) ==
    LET u1 == b.u + (so - b.offset)
        doRep == b.last_end = -1 \/ EndsBeyond(eo, b.last_end)
        u2 == IF doRep THEN u1 + expansion(c, glen) ELSE u1
        b1 == [b EXCEPT !.u = u2, !.offset = eo, !.nmatch = b.nmatch + 1,
                        !.last_end = IF doRep THEN eo ELSE b.last_end,
                        !.wrote = u2, !.cap = b.nns]
    IN  IF eo >= c.ns \/ ~c.global THEN /\ g' = b1 /\ pc' = "buftail" /\ err' = err
        ELSE LET b2 == IF eo = so THEN [b1 EXCEPT !.u = u2 + 1, !.offset = eo + 1,
                                                  !.wrote = u2 + 1]
                       ELSE b1
                 b3 == buf_grown(b2, c)
             IN  IF b3.nns = -1
                 THEN /\ pc' = "error" /\ err' = "result string is too long" /\ g' = b2
                 ELSE /\ g' = b3 /\ pc' = "bufloop" /\ err' = err

\* the offsets a match can start or end at in the model: the offset of the
\* attempt, one unit on, and the end of the subject
MatchEdges(from, ns) == {p \in {from, from + 1, ns} : p <= ns}

\* one match attempt of a regex branch: no match, or a match at or after the
\* offset whose groups are empty or the whole match
gsub_buf_match ==
    /\ call.op = "gsub_buf" /\ pc = "bufloop"
    /\ \/ /\ pc' = "buftail" /\ UNCHANGED <<g, err>>
       \/ /\ g.nmatch < MaxLen
          /\ \E so \in MatchEdges(g.offset, call.ns) :
                \E eo \in MatchEdges(so, call.ns) :
                    \E glen \in {0, eo - so} : gsub_buf_turn(g, call, so, eo, glen)
    /\ UNCHANGED <<R_interrupts_pending, call, mode, itok, i, ans, ind, compiled, tried, mt, nwarn,
                   warns>>

\* the end of an element of a regex branch: when there was a match the size is
\* tested once more and the rest of the subject and the terminator are written
gsub_buf_tail ==
    /\ call.op = "gsub_buf" /\ pc = "buftail"
    /\ LET rest == call.ns - g.offset
           grow == g.nns < g.u + rest + 1
       IN  IF g.nmatch = 0 THEN /\ pc' = "done" /\ UNCHANGED <<g, err>>
           ELSE IF grow /\ g.nns > INT_MAX \div 2
           THEN /\ pc' = "error" /\ err' = "result string is too long" /\ g' = g
           ELSE /\ g' = [g EXCEPT !.nns = IF grow THEN 2 * g.nns ELSE g.nns,
                                  !.u = g.u + rest,
                                  !.wrote = g.u + rest + 1,
                                  !.cap = IF grow THEN 2 * g.nns ELSE g.nns]
                /\ pc' = "done" /\ err' = err
    /\ UNCHANGED <<R_interrupts_pending, call, mode, itok, i, ans, ind, compiled, tried, mt, nwarn,
                   warns>>

\* the literal branch on a subject with nr matches to replace: the buffer has
\* ns + nr*(replen - patlen) + 1 bytes, and what is between the matches, the
\* replacements, the rest and the terminator are written
gsub_buf_fixed ==
    /\ call.op = "gsub_buf" /\ pc = "intake" /\ call.path = "fixed"
    /\ \E found \in 1 .. Min(MaxLen, call.ns \div call.patlen) :
          LET nr == IF call.global THEN found ELSE 1
              size == call.ns + nr * (replen(call) - call.patlen) + 1
          IN  g' = [BufStart(size) EXCEPT !.nmatch = nr,
                                          !.offset = call.ns,
                                          !.u = call.ns - nr * call.patlen
                                                + nr * replen(call),
                                          !.wrote = call.ns - nr * call.patlen
                                                    + nr * replen(call) + 1]
    /\ pc' = "done"
    /\ UNCHANGED <<R_interrupts_pending, call, mode, itok, i, ans, ind, compiled, tried, mt, nwarn,
                   warns, err>>

NextBuf == gsub_buf_alloc \/ gsub_buf_match \/ gsub_buf_tail \/ gsub_buf_fixed

\* the lengths of the subjects, and the replacements as plain characters and
\* back-references: "-", "\1", "\1\1\1", a long plain one and a very long one
IsBufCall(c) ==
    \E path \in {"fixed", "bytes", "wide"}, global \in BOOLEAN,
       ns \in {0, 1, 2, 3, 2000, 600000000},
       r \in {<<1, 0>>, <<0, 1>>, <<0, 3>>, <<5000, 0>>, <<600000000, 0>>},
       patlen \in {1, 2} :
        /\ path = "fixed" => r[2] = 0 /\ ns >= patlen
        /\ path # "fixed" => patlen = 1
        /\ ns = 600000000 => r \in {<<1, 0>>, <<600000000, 0>>} /\ path = "bytes"
        /\ r[1] = 600000000 => ns = 600000000
        /\ c = bufCall(path, global, ns, r[1], r[2], patlen)

InitBuf == IsBufCall(call) /\ InitRest

SpecBuf == InitBuf /\ [][NextBuf]_vars

(***************************************************************************)
(* C28: the writes to the output buffer of sub and gsub                    *)
(***************************************************************************)
\* the last write ended within the buffer it was made to
WithinBuffer == g.wrote <= g.cap

\* C28 as stated: in every branch of sub and gsub no write to the output
\* buffer goes beyond its size at the time, the expansion of the first match
\* included
C28_AsStated == (call.op = "gsub_buf" /\ pc # "intake") => WithinBuffer

\* the literal branch writes exactly the size of its buffer
C28_FixedExact ==
    (call.op = "gsub_buf" /\ call.path = "fixed" /\ pc = "done") => g.wrote = g.cap

\* an expansion with back-references was written by a regex branch
C28_Witness ==
    /\ call.op = "gsub_buf" /\ call.path = "bytes" /\ call.subs = 3 /\ pc = "done"
    /\ g.nmatch >= 1 /\ g.u > call.ns


\* a regex branch keeps within its buffer when the subject is not empty and
\* the replacement has no back-reference
C28_PlainNonEmpty ==
    (call.op = "gsub_buf" /\ pc # "intake" /\ call.path # "fixed" /\ call.subs = 0
     /\ call.ns > 0) => WithinBuffer

=============================================================================
